---- MODULE Spec2Model ----
(***************************************************************************)
(* The forwarding pipeline of telerelay: the central dispatcher of         *)
(* BotManager, the per-rule MessageForwarder (handle_message and           *)
(* forward_message with its delivery strategies and fallback), the         *)
(* MediaGroupHandler, the MediaDownloader, the DeduplicateCache and the    *)
(* MessageFilter.  One new-message event is in flight at a time; every     *)
(* transport call is a step whose outcome the environment chooses.         *)
(***************************************************************************)
EXTENDS Integers, Sequences, FiniteSets, TLC

\* ---------------------------------------------------------------- bounds
MaxEvents == 1          \* new-message events handled in one behaviour
MaxTicks == 4           \* clock advances in the should_skip specification
MaxRules == 2           \* rules saved in the configuration
MaxHistory == 11        \* messages in the history of a chat

\* ------------------------------------------------------ program constants
MEDIA_GROUP_CACHE_TTL == 3600        \* seconds
TicksPerSecond == 2                  \* the clock counts half seconds: sleep(0.5) is one tick
HISTORY_LIMIT == 50
GROUP_LIMIT == 10

\* ------------------------------------------------------------- universes
Rules == {1, 2}                      \* rule names, in configuration order
Chats == {1, 2}
Senders == {7, 8}
Gids == {70, 71}                     \* grouped ids (0 = message is not grouped)
NoTs == -1                           \* "key absent" in a timestamp mapping
FloodSeconds == {5}                  \* seconds carried by a FloodWaitError
TickSteps == {1, 7198, 7200}         \* clock advances (ticks) between should_skip calls

\* Texts are sequences of characters; "" is <<>>.
Lower(c) == IF c = "U" THEN "u" ELSE IF c = "H" THEN "h" ELSE c

LowerText(s) == [i \in 1..Len(s) |-> Lower(s[i])]

\* Python's `needle in haystack` on strings.
Contains(hay, needle) ==
    \E i \in 1..(Len(hay) - Len(needle) + 1) :
        SubSeq(hay, i, i + Len(needle) - 1) = needle

\* Python's str.strip(): leading and trailing blanks removed.
RECURSIVE Strip(_)
Strip(s) ==
    IF s = <<>> THEN <<>>
    ELSE IF Head(s) = " " THEN Strip(Tail(s))
    ELSE IF s[Len(s)] = " " THEN Strip(SubSeq(s, 1, Len(s) - 1))
    ELSE s

\* ------------------------------------------------------------ the filter
\* A configured regex pattern is a literal; `valid` is FALSE for a pattern
\* re.compile rejects.
\* A faulty variant: the first pattern re.compile rejects ends the
\* compilation, no pattern is kept.
compiled_patterns_until_error(f) ==
    IF \E p \in f.regex_patterns : ~p.valid THEN {} ELSE f.regex_patterns

compiled_patterns(f) == {p \in f.regex_patterns : p.valid}

get_media_type(m) == IF m.media = "none" THEN "text" ELSE m.media

get_file_size(m) == IF m.media \in {"none", "webpage"} THEN 0 ELSE m.size

check_media_type(f, m) ==
    IF f.media_types = {} THEN TRUE ELSE get_media_type(m) \in f.media_types

check_file_size(f, m) ==
    LET file_size == get_file_size(m) IN
    IF file_size = 0 THEN TRUE
    ELSE IF f.min_file_size > 0 /\ file_size < f.min_file_size THEN FALSE
    ELSE IF f.max_file_size > 0 /\ file_size > f.max_file_size THEN FALSE
    ELSE TRUE

matches_text(f, text) ==
    IF text = <<>> THEN FALSE
    ELSE \/ \E p \in compiled_patterns(f) : Contains(text, p.lit)
         \/ \E k \in f.keywords : Contains(LowerText(text), LowerText(k))

is_ignored(f, text, sender_id) ==
    \/ sender_id # 0 /\ sender_id \in f.ignored_user_ids
    \/ text # <<>> /\ \E k \in f.ignored_keywords :
                          Contains(LowerText(text), LowerText(k))

\* A faulty variant: a filter with nothing configured forwards in both modes.
should_forward_open_when_empty(f, m, sender_id) ==
    IF is_ignored(f, m.text, sender_id) THEN FALSE
    ELSE IF ~check_media_type(f, m) THEN FALSE
    ELSE IF ~check_file_size(f, m) THEN FALSE
    ELSE IF compiled_patterns(f) = {} /\ f.keywords = {} THEN TRUE
    ELSE IF f.mode = "whitelist" THEN matches_text(f, m.text)
    ELSE ~matches_text(f, m.text)

\* A faulty variant: the blacklist branch forwards only messages with text.
should_forward_text_required(f, m, sender_id) ==
    IF is_ignored(f, m.text, sender_id) THEN FALSE
    ELSE IF ~check_media_type(f, m) THEN FALSE
    ELSE IF ~check_file_size(f, m) THEN FALSE
    ELSE IF compiled_patterns(f) = {} /\ f.keywords = {} THEN f.mode = "blacklist"
    ELSE IF f.mode = "whitelist" THEN matches_text(f, m.text)
    ELSE m.text # <<>> /\ ~matches_text(f, m.text)

\* MessageFilter.should_forward
should_forward(f, m, sender_id) ==
    IF is_ignored(f, m.text, sender_id) THEN FALSE
    ELSE IF ~check_media_type(f, m) THEN FALSE
    ELSE IF ~check_file_size(f, m) THEN FALSE
    ELSE IF compiled_patterns(f) = {} /\ f.keywords = {} THEN f.mode = "blacklist"
    ELSE IF f.mode = "whitelist" THEN matches_text(f, m.text)
    ELSE ~matches_text(f, m.text)

\* ----------------------------------------------------------- media groups
RECURSIVE SortById(_)
SortById(s) ==
    IF s = {} THEN <<>>
    ELSE LET lo == CHOOSE m \in s : \A o \in s : m.id <= o.id
         IN <<lo>> \o SortById(s \ {lo})

\* The scan of get_messages over what iter_messages yields (newest first,
\* at most HISTORY_LIMIT entries): collect the members of the group and stop
\* at GROUP_LIMIT of them.
RECURSIVE Collect(_, _, _)
Collect(hist, gid, acc) ==
    IF hist = <<>> \/ Len(acc) >= GROUP_LIMIT THEN acc
    ELSE Collect(Tail(hist), gid,
                 IF Head(hist).gid = gid THEN Append(acc, Head(hist)) ELSE acc)

Range(s) == {s[i] : i \in 1..Len(s)}

\* A faulty variant: the members stay in the order of the scan.
get_messages_unsorted(m, q) ==
    IF m.gid = 0 THEN <<m>>
    ELSE IF q.raised THEN <<m>>
    ELSE LET found == Collect(SubSeq(q.hist, 1, IF Len(q.hist) < HISTORY_LIMIT
                                                THEN Len(q.hist) ELSE HISTORY_LIMIT),
                              m.gid, <<>>)
         IN IF found = <<>> THEN <<m>> ELSE found

\* A faulty variant: a failed history query leaves nothing to forward.
get_messages_empty_on_error(m, q) ==
    IF m.gid = 0 THEN <<m>>
    ELSE IF q.raised THEN <<>>
    ELSE LET found == Collect(SubSeq(q.hist, 1, IF Len(q.hist) < HISTORY_LIMIT
                                                THEN Len(q.hist) ELSE HISTORY_LIMIT),
                              m.gid, <<>>)
         IN IF found = <<>> THEN <<m>> ELSE SortById(Range(found))

\* get_messages; q is the history query's outcome: q.raised, or q.hist is
\* the chat's history, newest first.
get_messages(m, q) ==
    IF m.gid = 0 THEN <<m>>
    ELSE IF q.raised THEN <<m>>
    ELSE LET found == Collect(SubSeq(q.hist, 1, IF Len(q.hist) < HISTORY_LIMIT
                                                THEN Len(q.hist) ELSE HISTORY_LIMIT),
                              m.gid, <<>>)
         IN IF found = <<>> THEN <<m>> ELSE SortById(Range(found))

\* A faulty variant of the freshness test: an entry aged exactly the TTL is
\* still taken as fresh.
FreshGroupInclusive(now, ts) == now - ts <= MEDIA_GROUP_CACHE_TTL * TicksPerSecond

\* should_skip: `groups` is the mapping grouped_id -> timestamp (NoTs = absent).
FreshGroup(now, ts) == now - ts < MEDIA_GROUP_CACHE_TTL * TicksPerSecond

should_skip_result(groups, gid, now) ==
    groups[gid] # NoTs /\ FreshGroup(now, groups[gid])

should_skip_update(groups, gid, now) ==
    IF should_skip_result(groups, gid, now) THEN groups
    ELSE [g \in DOMAIN groups |->
            IF g = gid THEN now
            ELSE IF groups[g] # NoTs /\ FreshGroup(now, groups[g]) THEN groups[g]
            ELSE NoTs]

\* A faulty variant: every member of a group with text has to pass.
group_should_forward_all(msgs, f, sender_id) ==
    IF ~(\E i \in 1..Len(msgs) : msgs[i].text # <<>>) THEN TRUE
    ELSE \A i \in 1..Len(msgs) : should_forward(f, msgs[i], sender_id)

\* A faulty variant: a group without text is put to the filter as well.
group_should_forward_filtered(msgs, f, sender_id) ==
    \E i \in 1..Len(msgs) : should_forward(f, msgs[i], sender_id)

\* MediaGroupHandler.should_forward
group_should_forward(msgs, f, sender_id) ==
    IF ~(\E i \in 1..Len(msgs) : msgs[i].text # <<>>) THEN TRUE
    ELSE \E i \in 1..Len(msgs) : should_forward(f, msgs[i], sender_id)

\* ------------------------------------------------------------------ dedup
\* A faulty variant of the expiry: an entry aged exactly the window is kept.
dedup_purge_inclusive(cache, now, window) ==
    [x \in DOMAIN cache |->
        IF cache[x] # NoTs /\ now - cache[x] <= window * TicksPerSecond
        THEN cache[x] ELSE NoTs]

\* The cache maps a text (its hash) to the time it was recorded.
dedup_purge(cache, now, window) ==
    [x \in DOMAIN cache |->
        IF cache[x] # NoTs /\ now - cache[x] < window * TicksPerSecond
        THEN cache[x] ELSE NoTs]

is_duplicate_result(cache, text, now, window) ==
    IF text = <<>> \/ Strip(text) = <<>> THEN FALSE
    ELSE dedup_purge(cache, now, window)[text] # NoTs

\* A faulty variant: a hit records the text anew.
is_duplicate_update_refreshing(cache, text, now, window) ==
    IF text = <<>> \/ Strip(text) = <<>> THEN cache
    ELSE [dedup_purge(cache, now, window) EXCEPT ![text] = now]

is_duplicate_update(cache, text, now, window) ==
    IF text = <<>> \/ Strip(text) = <<>> THEN cache
    ELSE IF is_duplicate_result(cache, text, now, window)
         THEN dedup_purge(cache, now, window)
         ELSE [dedup_purge(cache, now, window) EXCEPT ![text] = now]

\* ------------------------------------------------------------ the messages
Msg(id, gid, text, media, size) ==
    [id |-> id, chat |-> 0, gid |-> gid, text |-> text, media |-> media,
     size |-> size, sender |-> 0, noforwards |-> FALSE]

TextOnly == Msg(1, 0, <<"U">>, "none", 0)
Captioned == Msg(2, 0, <<"h">>, "photo", 5)
BarePhoto == Msg(3, 0, <<>>, "photo", 5)
Album1 == Msg(4, 70, <<>>, "photo", 5)
Album2 == Msg(5, 70, <<"U">>, "photo", 5)
Album3 == Msg(6, 70, <<>>, "photo", 5)
Spaces == Msg(7, 0, <<" ">>, "none", 0)

Pool == {TextOnly, Captioned, BarePhoto, Album1, Album2, Album3, Spaces}

\* The messages that arrive as events.
Arrivals == {TextOnly, Captioned, Album1, Album2}

\* What the history of a chat can hold when an album member is looked up
\* (newest first).
Histories ==
    {<<>>, <<Album1>>, <<Album3, Album2, Captioned, Album1>>}

Arrived(m, c, s, nf) == [m EXCEPT !.chat = c, !.sender = s, !.noforwards = nf]

InChatOf(e, hist) ==
    [i \in 1..Len(hist) |->
        [hist[i] EXCEPT !.chat = e.chat, !.sender = e.sender,
                        !.noforwards = e.noforwards]]

HistoryOutcomes(e) ==
    IF e.gid = 0 THEN {[raised |-> FALSE, hist |-> <<>>]}
    ELSE {[raised |-> TRUE, hist |-> <<>>]} \cup
         {[raised |-> FALSE, hist |-> InChatOf(e, h)] :
             h \in {x \in Histories : x = <<>> \/ \E i \in 1..Len(x) : x[i].id = e.id}}

NoMsg == Msg(0, 0, <<>>, "none", 0)

\* ---------------------------------------------------------------- rules
DefaultFilter ==
    [mode |-> "blacklist", keywords |-> {}, regex_patterns |-> {},
     ignored_user_ids |-> {}, ignored_keywords |-> {}, media_types |-> {},
     min_file_size |-> 0, max_file_size |-> 0]

\* A ForwardingRule with an empty filter; the configurations below vary its
\* fields.
DefaultRule ==
    [enabled |-> TRUE, source_chats |-> {1}, target_chats |-> <<11>>,
     filter |-> DefaultFilter, preserve_format |-> TRUE,
     add_source_info |-> TRUE, delay |-> 0, force_forward |-> FALSE,
     hide_sender |-> FALSE, deduplicate |-> FALSE, deduplicate_window |-> 3600]

TargetLists == {<<11>>, <<11, 12>>}
Delays == {0, 1}                     \* rule.delay in ticks: 0 and the default 0.5 s

DeliveryConfigs ==
    {[DefaultRule EXCEPT !.target_chats = tl, !.preserve_format = pf,
                         !.add_source_info = asi, !.delay = d,
                         !.force_forward = ff, !.hide_sender = hs] :
        tl \in TargetLists, pf \in BOOLEAN, asi \in BOOLEAN, d \in Delays,
        ff \in BOOLEAN, hs \in BOOLEAN}

WordFilters ==
    {[DefaultFilter EXCEPT !.mode = md, !.keywords = kw] :
        md \in {"whitelist", "blacklist"}, kw \in {{}, {<<"u">>}}}

DispatchConfigs(sources, forces) ==
    {[DefaultRule EXCEPT !.source_chats = sc, !.filter = f, !.force_forward = ff] :
        sc \in sources, f \in WordFilters, ff \in forces}

\* ------------------------------------------------------------------ state
VARIABLES
    rule,              \* rule name -> ForwardingRule
    forwarded_count,   \* rule -> MessageForwarder.forwarded_count
    filtered_count,    \* rule -> MessageForwarder.filtered_count
    db,                \* rule -> the rule's rows in the stats database
    processed_groups,  \* rule -> MediaGroupHandler._processed_groups
    dedup_cache,       \* rule -> DeduplicateCache._cache
    clock,             \* time.time(), in ticks
    scratch,           \* files present in TEMP_DIR
    event,             \* the message of the event being handled
    events_done,       \* events delivered by the transport so far
    dpc,               \* position of _central_message_handler
    matched,           \* matched_rules not yet handed off
    cur,               \* rule whose handle_message is running (0 = none)
    pc,                \* position of handle_message / forward_message
    run,               \* 1 = first forward_message call, 2 = the retry
    messages,          \* forward_message: messages
    downloaded_files,  \* forward_message: downloaded_files
    idx,               \* forward_message: position in the target loop
    success_count,     \* forward_message: success_count
    log,               \* transport calls and sleeps of this handle_message call
    invoked,           \* rule -> handle_message calls for this event
    created,           \* files this handle_message call wrote to TEMP_DIR
    cleanup_calls,     \* arguments of its MediaDownloader.cleanup calls
    base,              \* the counters and the database when the event arrived
    admitted,          \* rule -> gid -> time of the last should_skip = False
    last_skip,         \* the last should_skip call
    ticks,             \* clock advances taken by Tick
    noted,             \* rule -> text -> time of the last is_duplicate = False
    last_dup,          \* the last is_duplicate call
    was_hit,           \* rule -> text -> is_duplicate = True since the text was recorded
    probe,             \* the last filter decision asked for, with its answer
    forwarding_rules,  \* config_data["forwarding_rules"]: name and enabled of the saved rules
    stats_rows,        \* rule names with rows in the stats database
    last_delete,       \* the delete request just made, with the state it found
    forwarders,        \* bot_manager.forwarders: the rule names the running forwarders hold
    retired,           \* the name the last rule operation took from the rule list
    assembled,         \* the last get_messages call, its result and what was sent of it
    task,              \* concurrent pipelines: task -> its position and locals
    posted,            \* concurrent pipelines: the source chat's history, newest first
    deliveries,        \* concurrent pipelines: <<message id, target>> -> times delivered
    prepended,         \* the last _prepend_source call and what it returned
    is_running,        \* BotManager._is_running
    stop_event,        \* BotManager._stop_event is set
    thread,            \* BotManager.thread (0 = None)
    bot,               \* bot thread -> its position in _run_bot and whether its client is connected
    ctl                \* control thread -> its position in start, stop or restart

vars == <<rule, forwarded_count, filtered_count, db, processed_groups,
          dedup_cache, clock, scratch, event, events_done, dpc,
          matched, cur, pc, run, messages, downloaded_files, idx,
          success_count, log, invoked, created, cleanup_calls, base,
          admitted, last_skip, ticks, noted, last_dup, was_hit, probe,
          forwarding_rules, stats_rows, last_delete, forwarders, retired,
          assembled, task, posted, deliveries, prepended,
          is_running, stop_event, thread, bot, ctl>>

\* The state the forwarding pipeline never touches.
dedup_state == <<noted, last_dup, was_hit>>

config_state == <<forwarding_rules, stats_rows, last_delete, forwarders, retired>>

conc_state == <<task, posted, deliveries>>
manager_state == <<is_running, stop_event, thread, bot, ctl>>
apart == <<prepended, manager_state>>
aside == <<dedup_state, probe, config_state, assembled, conc_state, apart>>

NoSkip == [rule |-> 0, gid |-> 0, at |-> 0, res |-> FALSE, prev |-> NoTs]

Texts == {m.text : m \in Pool}

NoDup == [rule |-> 0, text |-> <<>>, at |-> 0, res |-> FALSE, prev |-> NoTs,
          hit |-> FALSE]

NoProbe == [fn |-> "none", msgs |-> <<>>, sender |-> 0, res |-> FALSE, flipped |-> FALSE]

NoDelete == [made |-> FALSE, rules |-> <<>>, rows |-> {}]

NoAssembly == [fn |-> "none", msg |-> NoMsg, q |-> [raised |-> FALSE, hist |-> <<>>],
               list |-> <<>>, sent |-> <<>>]

NoPrepend == [called |-> FALSE, text |-> <<>>, source_text |-> <<>>,
              entities |-> <<>>, res |-> [text |-> <<>>, entities |-> <<>>]]

BotThreads == {1, 2}                 \* the threads start() can create in one behaviour
Callers == {1, 2}                    \* control threads: the WebUI and the admin bot

IdleCaller == [op |-> "none", pc |-> "idle", ret |-> FALSE, before |-> {},
               joined |-> 0, left_alive |-> FALSE, spawned |-> 0]

Tasks == {1, 2, 3}                   \* pipelines of one rule in flight together

IdleTask ==
    [pc |-> "idle", msg |-> NoMsg, messages |-> <<>>, idx |-> 0,
     success_count |-> 0, outcome |-> "none", overlapped |-> FALSE]

\* A second message with the text of TextOnly.
Repeat == Msg(8, 0, <<"U">>, "none", 0)

\* What is posted to the source chat in one request: an album, or a message.
Posts == {<<Album1, Album2>>, <<TextOnly>>, <<Repeat>>}

PostedIds == {4, 5, 1, 8}
TargetIds == {11, 12}

\* No filter decision and no media group asked for yet, no pipeline started.
Unasked ==
    /\ probe = NoProbe
    /\ assembled = NoAssembly
    /\ task = [t \in Tasks |-> IdleTask]
    /\ posted = <<>>
    /\ deliveries = [d \in PostedIds \X TargetIds |-> 0]
    /\ prepended = NoPrepend
    /\ is_running = FALSE
    /\ stop_event = FALSE
    /\ thread = 0
    /\ bot = [b \in BotThreads |-> [pc |-> "none", connected |-> FALSE]]
    /\ ctl = [c \in Callers |-> IdleCaller]

\* No configuration file and an empty stats database.
Unconfigured ==
    /\ forwarding_rules = <<>>
    /\ stats_rows = {}
    /\ last_delete = NoDelete
    /\ forwarders = {}
    /\ retired = {}

InitWith(rules) ==
    /\ rule = rules
    /\ forwarded_count = [r \in Rules |-> 0]
    /\ filtered_count = [r \in Rules |-> 0]
    /\ db = [r \in Rules |-> [forwarded |-> 0, filtered |-> 0, history |-> 0]]
    /\ processed_groups = [r \in Rules |-> [g \in Gids |-> NoTs]]
    /\ dedup_cache = [r \in Rules |-> [x \in Texts |-> NoTs]]
    /\ clock = 0
    /\ scratch = {}
    /\ event = NoMsg
    /\ events_done = 0
    /\ dpc = "idle"
    /\ matched = <<>>
    /\ cur = 0
    /\ pc = "none"
    /\ run = 1
    /\ messages = <<>>
    /\ downloaded_files = <<>>
    /\ idx = 0
    /\ success_count = 0
    /\ log = <<>>
    /\ invoked = [r \in Rules |-> 0]
    /\ created = {}
    /\ cleanup_calls = <<>>
    /\ base = [forwarded |-> [r \in Rules |-> 0], filtered |-> [r \in Rules |-> 0],
               db |-> [r \in Rules |-> [forwarded |-> 0, filtered |-> 0, history |-> 0]]]
    /\ admitted = [r \in Rules |-> [g \in Gids |-> NoTs]]
    /\ last_skip = NoSkip
    /\ ticks = 0
    /\ noted = [r \in Rules |-> [x \in Texts |-> NoTs]]
    /\ last_dup = NoDup
    /\ was_hit = [r \in Rules |-> [x \in Texts |-> FALSE]]

\* One rule with every combination of the delivery flags; the second rule
\* is disabled.
Init ==
    /\ \E cfg \in DeliveryConfigs :
          InitWith([r \in Rules |-> IF r = 1 THEN cfg
                                    ELSE [DefaultRule EXCEPT !.enabled = FALSE]])
    /\ Unasked
    /\ Unconfigured

\* Two enabled rules with varying filters and the default delivery flags;
\* force_forward varies for the first, the source chats for the second;
\* both filters have a keyword.
InitDispatch ==
    /\ \E c1 \in DispatchConfigs({{1}}, BOOLEAN),
          c2 \in DispatchConfigs({{1}, {1, 2}}, {FALSE}) :
          /\ c1.filter.keywords # {} /\ c2.filter.keywords # {}
          /\ InitWith([r \in Rules |-> IF r = 1 THEN c1 ELSE c2])
    /\ Unasked
    /\ Unconfigured

\* ------------------------------------------------------------- helpers
\* A faulty variant: the targets are taken last to first.
TargetsBackwards(r) ==
    [i \in 1..Len(rule[r].target_chats) |->
        rule[r].target_chats[Len(rule[r].target_chats) + 1 - i]]

\* targets = self.rule.target_chats
Targets(r) == rule[r].target_chats

\* rule_forwarder_map holds the enabled rules, in configuration order.
Active == {r \in Rules : rule[r].enabled}

all_source_chats == UNION {rule[r].source_chats : r \in Active}

RECURSIVE InOrder(_)
InOrder(S) ==
    IF S = {} THEN <<>>
    ELSE LET lo == CHOOSE r \in S : \A o \in S : r <= o
         IN <<lo>> \o InOrder(S \ {lo})

Entry(op, target, fb, attrib, res, n) ==
    [rule |-> cur, run |-> run, op |-> op, target |-> target, fb |-> fb,
     attrib |-> attrib, res |-> res, n |-> n]

\* asyncio.sleep(secs), as a log entry.
Slept(secs) == Entry("sleep", 0, FALSE, "none", "ok", secs)

\* ------------------------------------------------------ delivery strategy
\* A faulty variant of the branch: hide_sender is not consulted.
forward_normal_ignoring_hide(hide_sender, is_noforwards, preserve_format) ==
    IF is_noforwards THEN "copy"
    ELSE IF preserve_format THEN "direct"
    ELSE "copy"

\* A faulty variant of the branch: is_noforwards is not consulted.
forward_normal_ignoring_noforwards(hide_sender, is_noforwards, preserve_format) ==
    IF hide_sender THEN "copy"
    ELSE IF preserve_format THEN "direct"
    ELSE "copy"

\* The branch _forward_normal takes.
forward_normal(hide_sender, is_noforwards, preserve_format) ==
    IF hide_sender THEN "copy"
    ELSE IF is_noforwards THEN "copy"
    ELSE IF preserve_format THEN "direct"
    ELSE "copy"

\* A faulty variant of the try block: files the run holds are not used.
StrategyIgnoringFiles(files, hide_sender, is_noforwards, preserve_format) ==
    forward_normal(hide_sender, is_noforwards, preserve_format)

\* A faulty variant: under hide_sender the held files are not used.
StrategyFilesUnlessHidden(files, hide_sender, is_noforwards, preserve_format) ==
    IF files # <<>> /\ ~hide_sender THEN "reupload"
    ELSE forward_normal(hide_sender, is_noforwards, preserve_format)

\* The body of the try block of the target loop.
Strategy(files, hide_sender, is_noforwards, preserve_format) ==
    IF files # <<>> THEN "reupload"
    ELSE forward_normal(hide_sender, is_noforwards, preserve_format)

\* What is attached to the text: the block of _get_source_data under
\* hide_sender, the line of _build_source_text otherwise, both only with
\* add_source_info; a direct forward carries Telegram's own marker.
Attribution(strategy, hide_sender, add_source_info) ==
    IF strategy = "direct" THEN "native"
    ELSE IF ~add_source_info THEN "none"
    ELSE IF hide_sender THEN "custom"
    ELSE "prepend"

need_download(is_noforwards, force_forward) == is_noforwards /\ force_forward

\* Outcomes the transport can give to a delivery call: success, a
\* ChatForwardsRestrictedError (when the message is forwarded or its media
\* referenced), a FloodWaitError, any other exception.
Outcomes(strategy) ==
    IF strategy = "reupload" THEN {"ok", "error", "flood"}
    ELSE {"ok", "restricted", "error", "flood"}

\* Outcomes of the send inside the fallback handler, where every exception
\* is handled alike.
FallbackOutcomes == {"ok", "error"}

\* ---------------------------------------------------------------- download
MediaCount(msgs) == Cardinality({i \in 1..Len(msgs) : msgs[i].media # "none"})

\* MediaDownloader.download: `got` files are fetched, then the call ends
\* normally (members whose download_media gave no path are skipped) or the
\* next download_media raises.
DownloadOutcomes(msgs, raises) ==
    {[got |-> j, end |-> "ok"] :
        j \in {0, MediaCount(msgs) - 1, MediaCount(msgs)} \cap Nat} \cup
    {[got |-> MediaCount(msgs) - 1, end |-> e] :
        e \in IF MediaCount(msgs) > 0 THEN raises ELSE {}}

\* download_media names a file after its source and never reuses the name
\* of a file that exists.
RECURSIVE FreeNames(_, _)
FreeNames(dir, n) ==
    IF n = 0 THEN <<>>
    ELSE LET f == CHOOSE x \in 1..(Cardinality(dir) + 1) : x \notin dir
         IN <<f>> \o FreeNames(dir \cup {f}, n - 1)

NewFiles(d) == Range(FreeNames(scratch, d.got))

\* The list download returns.
Returned(d) == IF d.end = "ok" THEN FreeNames(scratch, d.got) ELSE <<>>

\* MediaDownloader.cleanup
cleanup(dir, paths) == dir \ Range(paths)

\* A faulty variant of the counter: one increment per successful target.
log_result_per_target(count, success) == count + success

\* _log_result: the counter after a run with `success` successful targets.
log_result_count(count, success) == IF success > 0 THEN count + 1 ELSE count

\* A faulty variant: the history record is written for every run.
log_result_history_always(count, success) == count + 1

\* _log_result: the history records after a run with `success` successful
\* targets.
log_result_history(count, success) == IF success > 0 THEN count + 1 ELSE count

\* success_count after one pass of the try block with outcome o.
attempt_success(count, o) == IF o = "ok" THEN count + 1 ELSE count

\* A faulty variant of the fallback handler: a target served by the fallback
\* is not counted.
fallback_uncounted(count, files, o) == count

\* success_count after the fallback handler: the files it holds were sent
\* with outcome o.
fallback_success(count, files, o) ==
    IF files # <<>> /\ o = "ok" THEN count + 1 ELSE count

\* ------------------------------------------------------------- dispatcher
\* The transport delivers a new message of a source chat.
NewEvent(m, c, s, nf) ==
    /\ dpc \in {"idle", "done", "crashed"}
    /\ events_done < MaxEvents
    /\ c \in all_source_chats
    /\ event' = Arrived(m, c, s, nf)
    /\ events_done' = events_done + 1
    /\ dpc' = "resolving"
    /\ matched' = <<>>
    /\ cur' = 0
    /\ pc' = "none"
    /\ run' = 1
    /\ messages' = <<>>
    /\ downloaded_files' = <<>>
    /\ idx' = 0
    /\ success_count' = 0
    /\ log' = <<>>
    /\ invoked' = [r \in Rules |-> 0]
    /\ created' = {}
    /\ cleanup_calls' = <<>>
    /\ base' = [forwarded |-> forwarded_count, filtered |-> filtered_count, db |-> db]
    /\ UNCHANGED aside
    /\ UNCHANGED <<rule, forwarded_count, filtered_count, db, processed_groups,
                   dedup_cache, clock, scratch, admitted, last_skip,
                   ticks>>

\* event.get_chat() and event.get_sender() returned; nothing bounds the
\* time the handler waits for them.
EntitiesResolved ==
    /\ dpc = "resolving"
    /\ dpc' = "dispatch"
    /\ UNCHANGED aside
    /\ UNCHANGED <<rule, forwarded_count, filtered_count, db, processed_groups,
                   dedup_cache, clock, scratch, event, events_done,
                   matched, cur, pc, run, messages, downloaded_files, idx,
                   success_count, log, invoked, created, cleanup_calls, base,
                   admitted, last_skip, ticks>>

matched_rules(e) ==
    {r \in Active : /\ e.chat \in rule[r].source_chats
                    /\ \/ e.gid # 0
                       \/ should_forward(rule[r].filter, e, e.sender)}

\* A faulty variant: no rejecting rule is recorded.
filtered_by_nobody(e) == {}

\* filtered_by of _central_message_handler
filtered_by(e) ==
    {r \in Active : /\ e.chat \in rule[r].source_chats
                    /\ e.gid = 0
                    /\ ~should_forward(rule[r].filter, e, e.sender)}

\* _central_message_handler up to its first hand-off.
Dispatch ==
    /\ dpc = "dispatch"
    /\ IF matched_rules(event) = {}
       THEN /\ filtered_count' = [r \in Rules |->
                   IF r \in filtered_by(event) THEN filtered_count[r] + 1
                   ELSE filtered_count[r]]
            /\ dpc' = "done"
            /\ matched' = <<>>
       ELSE /\ matched' = InOrder(matched_rules(event))
            /\ dpc' = "handing"
            /\ UNCHANGED filtered_count
    /\ UNCHANGED aside
    /\ UNCHANGED <<rule, forwarded_count, db, processed_groups, dedup_cache,
                   clock, scratch, event, events_done, cur, pc, run,
                   messages, downloaded_files, idx, success_count, log,
                   invoked, created, cleanup_calls, base, admitted, last_skip,
                   ticks>>

\* await forwarder.handle_message(event) for the next matched rule.
HandOff ==
    /\ dpc = "handing"
    /\ pc \in {"none", "done"}
    /\ matched # <<>>
    /\ cur' = Head(matched)
    /\ matched' = Tail(matched)
    /\ invoked' = [invoked EXCEPT ![Head(matched)] = @ + 1]
    /\ pc' = "forward_message"
    /\ run' = 1
    /\ messages' = <<>>
    /\ downloaded_files' = <<>>
    /\ idx' = 0
    /\ success_count' = 0
    /\ log' = <<>>
    /\ created' = {}
    /\ cleanup_calls' = <<>>
    /\ UNCHANGED aside
    /\ UNCHANGED <<rule, forwarded_count, filtered_count, db, processed_groups,
                   dedup_cache, clock, scratch, event, events_done,
                   dpc, base, admitted, last_skip, ticks>>

\* The last handle_message returned: the handler returns.
HandlerReturns ==
    /\ dpc = "handing"
    /\ pc = "done"
    /\ matched = <<>>
    /\ dpc' = "done"
    /\ UNCHANGED aside
    /\ UNCHANGED <<rule, forwarded_count, filtered_count, db, processed_groups,
                   dedup_cache, clock, scratch, event, events_done,
                   matched, cur, pc, run, messages, downloaded_files, idx,
                   success_count, log, invoked, created, cleanup_calls, base,
                   admitted, last_skip, ticks>>

\* handle_message raised: nothing in _central_message_handler catches it,
\* the rules still in matched_rules are not handed the message.
HandlerRaises ==
    /\ dpc = "handing"
    /\ pc = "raised"
    /\ dpc' = "crashed"
    /\ UNCHANGED aside
    /\ UNCHANGED <<rule, forwarded_count, filtered_count, db, processed_groups,
                   dedup_cache, clock, scratch, event, events_done,
                   matched, cur, pc, run, messages, downloaded_files, idx,
                   success_count, log, invoked, created, cleanup_calls, base,
                   admitted, last_skip, ticks>>

\* ---------------------------------------------------------- the pipeline
\* The outcome of the checks forward_message makes before it delivers.
PrecheckOf(r, e, msgs, now) ==
    IF Len(msgs) > 1 /\ should_skip_result(processed_groups[r], e.gid, now)
        THEN "skip"
    ELSE IF Len(msgs) > 1 /\ ~group_should_forward(msgs, rule[r].filter, e.sender)
        THEN "filtered"
    ELSE IF rule[r].deduplicate /\
            is_duplicate_result(dedup_cache[r], e.text, now,
                                rule[r].deduplicate_window)
        THEN "duplicate"
    ELSE "deliver"

Precheck(r, msgs, now) == PrecheckOf(r, event, msgs, now)

\* A faulty variant: a deduplicated message is not counted.
count_filtered_group_only(count, check) ==
    IF check = "filtered" THEN count + 1 ELSE count

\* filtered_count and the filtered column after the checks gave `check`.
count_filtered(count, check) ==
    IF check \in {"filtered", "duplicate"} THEN count + 1 ELSE count

\* forward_message from its entry to the end of the checks (one history
\* query at most), for the rule being handled.
ForwardStart ==
    /\ pc = "forward_message"
    /\ IF Targets(cur) = <<>>
       THEN /\ pc' = "fm_return"
            /\ UNCHANGED <<messages, processed_groups, dedup_cache, clock,
                           filtered_count, db, log, idx, admitted, last_skip>>
       ELSE \E q \in HistoryOutcomes(event) :
            LET r == cur
                grouped == event.gid # 0
                now == IF grouped THEN clock + 1 ELSE clock
                msgs == get_messages(event, q)
                is_media_group == Len(msgs) > 1
                check == Precheck(r, msgs, now)
            IN
            /\ messages' = msgs
            /\ clock' = now
            /\ log' = IF grouped
                      THEN log \o <<Slept(1),
                                    Entry("history", 0, FALSE, "none",
                                          IF q.raised THEN "error" ELSE "ok",
                                          0)>>
                      ELSE log
            /\ processed_groups' =
                 IF is_media_group
                 THEN [processed_groups EXCEPT
                         ![r] = should_skip_update(@, event.gid, now)]
                 ELSE processed_groups
            /\ last_skip' =
                 IF is_media_group
                 THEN [rule |-> r, gid |-> event.gid, at |-> now,
                       res |-> (check = "skip"), prev |-> admitted[r][event.gid]]
                 ELSE last_skip
            /\ admitted' =
                 IF is_media_group /\ check # "skip"
                 THEN [admitted EXCEPT ![r][event.gid] = now]
                 ELSE admitted
            /\ dedup_cache' =
                 IF rule[r].deduplicate /\ check \in {"duplicate", "deliver"}
                 THEN [dedup_cache EXCEPT
                         ![r] = is_duplicate_update(@, event.text, now,
                                                    rule[r].deduplicate_window)]
                 ELSE dedup_cache
            /\ filtered_count' =
                 [filtered_count EXCEPT ![r] = count_filtered(@, check)]
            /\ db' = [db EXCEPT ![r].filtered = count_filtered(@, check)]
            /\ pc' = IF check # "deliver" THEN "fm_return"
                     ELSE IF need_download(event.noforwards, rule[r].force_forward)
                          THEN "prefetch"
                     ELSE "targets"
            /\ idx' = 1
    /\ UNCHANGED aside
    /\ UNCHANGED <<rule, forwarded_count, scratch, event,
                   events_done, dpc, matched, cur, run, downloaded_files,
                   success_count, invoked, created, cleanup_calls, base, ticks>>

\* downloaded_files = await self.downloader.download(messages), before the
\* target loop.  An exception leaves forward_message: handle_message sleeps
\* and calls forward_message again on a FloodWaitError of the first call,
\* logs any other exception of the first call, and lets an exception of the
\* second call through.
Prefetch ==
    /\ pc = "prefetch"
    /\ \E d \in DownloadOutcomes(messages, {"error", "flood"}), secs \in FloodSeconds :
        /\ scratch' = scratch \cup NewFiles(d)
        /\ created' = created \cup NewFiles(d)
        /\ downloaded_files' = Returned(d)
        /\ log' = log \o <<Entry("download", 0, FALSE, "none", d.end, d.got)>>
                      \o (IF d.end = "flood" /\ run = 1
                          THEN <<Slept(secs * TicksPerSecond)>> ELSE <<>>)
        /\ clock' = IF d.end = "flood" /\ run = 1
                    THEN clock + secs * TicksPerSecond ELSE clock
        /\ pc' = IF d.end = "ok" THEN (IF d.got = 0 THEN "fm_return" ELSE "targets")
                 ELSE IF run = 2 THEN "raised"
                 ELSE IF d.end = "flood" THEN "forward_message"
                 ELSE "done"
        /\ run' = IF d.end = "flood" /\ run = 1 THEN 2 ELSE run
    /\ UNCHANGED aside
    /\ UNCHANGED <<rule, forwarded_count, filtered_count, db, processed_groups,
                   dedup_cache, event, events_done, dpc, matched, cur,
                   messages, idx, success_count, invoked, cleanup_calls, base,
                   admitted, last_skip, ticks>>

\* One pass of the try block of the target loop.
Attempt ==
    /\ pc = "targets"
    /\ idx <= Len(Targets(cur))
    /\ LET cfg == rule[cur]
           st == Strategy(downloaded_files, cfg.hide_sender, event.noforwards,
                          cfg.preserve_format)
           at == Attribution(st, cfg.hide_sender, cfg.add_source_info)
           pause == cfg.delay > 0 /\ idx < Len(Targets(cur))
       IN \E o \in Outcomes(st) :
           /\ log' = log \o <<Entry(st, Targets(cur)[idx], FALSE, at, o, 0)>>
                         \o (IF o = "ok" /\ pause THEN <<Slept(cfg.delay)>> ELSE <<>>)
           /\ clock' = IF o = "ok" /\ pause THEN clock + cfg.delay ELSE clock
           /\ success_count' = attempt_success(success_count, o)
           /\ pc' = IF o = "restricted" THEN "fallback" ELSE "targets"
           /\ idx' = IF o = "restricted" THEN idx ELSE idx + 1
    /\ UNCHANGED aside
    /\ UNCHANGED <<rule, forwarded_count, filtered_count, db, processed_groups,
                   dedup_cache, scratch, event, events_done, dpc,
                   matched, cur, run, messages, downloaded_files, invoked,
                   created, cleanup_calls, base, admitted, last_skip, ticks>>

\* The handler of ChatForwardsRestrictedError: download unless files are
\* held, send them if there are any; every exception ends the target.
Fallback ==
    /\ pc = "fallback"
    /\ LET cfg == rule[cur]
           at == Attribution("reupload", cfg.hide_sender, cfg.add_source_info)
           tgt == Targets(cur)[idx]
       IN IF downloaded_files = <<>>
          THEN \E d \in DownloadOutcomes(messages, {"error"}), o \in FallbackOutcomes :
               /\ scratch' = scratch \cup NewFiles(d)
               /\ created' = created \cup NewFiles(d)
               /\ downloaded_files' = Returned(d)
               /\ log' = log \o <<Entry("download", tgt, TRUE, "none", d.end, d.got)>>
                             \o (IF Returned(d) # <<>>
                                 THEN <<Entry("reupload", tgt, TRUE, at, o, 0)>>
                                 ELSE <<>>)
               /\ success_count' = fallback_success(success_count, Returned(d), o)
          ELSE \E o \in FallbackOutcomes :
               /\ log' = log \o <<Entry("reupload", tgt, TRUE, at, o, 0)>>
               /\ success_count' = fallback_success(success_count, downloaded_files, o)
               /\ UNCHANGED <<scratch, created, downloaded_files>>
    /\ pc' = "targets"
    /\ idx' = idx + 1
    /\ UNCHANGED aside
    /\ UNCHANGED <<rule, forwarded_count, filtered_count, db, processed_groups,
                   dedup_cache, clock, event, events_done, dpc, matched, cur,
                   run, messages, invoked, cleanup_calls, base, admitted,
                   last_skip, ticks>>

\* After the target loop: cleanup and _log_result.
Finish ==
    /\ pc = "targets"
    /\ idx > Len(Targets(cur))
    /\ scratch' = IF downloaded_files # <<>> THEN cleanup(scratch, downloaded_files)
                  ELSE scratch
    /\ cleanup_calls' = IF downloaded_files # <<>>
                        THEN Append(cleanup_calls, downloaded_files)
                        ELSE cleanup_calls
    /\ forwarded_count' = [forwarded_count EXCEPT
                             ![cur] = log_result_count(@, success_count)]
    /\ db' = [db EXCEPT ![cur].forwarded = log_result_count(@, success_count),
                        ![cur].history = log_result_history(@, success_count)]
    /\ log' = Append(log, Entry("result", 0, FALSE, "none",
                                IF success_count > 0 THEN "forwarded"
                                ELSE "all_failed", success_count))
    /\ pc' = "fm_return"
    /\ UNCHANGED aside
    /\ UNCHANGED <<rule, filtered_count, processed_groups, dedup_cache, clock,
                   event, events_done, dpc, matched, cur, run,
                   messages, downloaded_files, idx, success_count, invoked,
                   created, base, admitted, last_skip, ticks>>

\* forward_message returned to handle_message, which sleeps rule.delay
\* after its first call and returns.
FmReturn ==
    /\ pc = "fm_return"
    /\ LET pause == run = 1 /\ rule[cur].delay > 0
       IN /\ log' = IF pause THEN Append(log, Slept(rule[cur].delay)) ELSE log
          /\ clock' = IF pause THEN clock + rule[cur].delay ELSE clock
    /\ pc' = "done"
    /\ UNCHANGED aside
    /\ UNCHANGED <<rule, forwarded_count, filtered_count, db, processed_groups,
                   dedup_cache, scratch, event, events_done, dpc,
                   matched, cur, run, messages, downloaded_files, idx,
                   success_count, invoked, created, cleanup_calls, base,
                   admitted, last_skip, ticks>>

\* The steps the event loop takes by itself once a task is ready to run.
Step ==
    \/ Dispatch
    \/ HandOff
    \/ HandlerReturns
    \/ HandlerRaises
    \/ ForwardStart
    \/ Prefetch
    \/ Attempt
    \/ Fallback
    \/ Finish
    \/ FmReturn

Next ==
    \/ \E m \in Arrivals, c \in Chats, s \in {7}, nf \in BOOLEAN : NewEvent(m, c, s, nf)
    \/ EntitiesResolved
    \/ Dispatch
    \/ HandOff
    \/ HandlerReturns
    \/ HandlerRaises
    \/ ForwardStart
    \/ Prefetch
    \/ Attempt
    \/ Fallback
    \/ Finish
    \/ FmReturn

Spec == Init /\ [][Next]_vars

SpecDispatch == InitDispatch /\ [][Next]_vars

\* One rule that downloads from forwards-restricted chats, with and
\* without deduplication; the second rule is disabled.
InitRetry ==
    /\ \E dd \in BOOLEAN :
          InitWith([r \in Rules |->
              IF r = 1 THEN [DefaultRule EXCEPT !.force_forward = TRUE,
                                                !.deduplicate = dd]
              ELSE [DefaultRule EXCEPT !.enabled = FALSE]])
    /\ Unasked
    /\ Unconfigured

SpecRetry == InitRetry /\ [][Next]_vars

\* One rule with two targets and every combination of hide_sender,
\* preserve_format and force_forward; the second rule is disabled.
InitSticky ==
    /\ \E hs \in BOOLEAN, pf \in BOOLEAN, ff \in BOOLEAN :
          InitWith([r \in Rules |->
              IF r = 1 THEN [DefaultRule EXCEPT !.target_chats = <<11, 12>>,
                                                !.hide_sender = hs,
                                                !.preserve_format = pf,
                                                !.force_forward = ff]
              ELSE [DefaultRule EXCEPT !.enabled = FALSE]])
    /\ Unasked
    /\ Unconfigured

SpecSticky == InitSticky /\ [][Next]_vars

\* One rule with two targets; the event loop runs every task that is ready,
\* the transport owes no answer to an entity lookup.
InitLive ==
    /\ \E cfg \in DeliveryConfigs :
          /\ Len(cfg.target_chats) = 2 /\ cfg.delay = 0 /\ ~cfg.add_source_info
          /\ InitWith([r \in Rules |-> IF r = 1 THEN cfg
                                        ELSE [DefaultRule EXCEPT !.enabled = FALSE]])
    /\ Unasked
    /\ Unconfigured

SpecLive == InitLive /\ [][Next]_vars /\ WF_vars(Step)

Delivery == {"direct", "copy", "reupload"}

\* ------------------------------------------- should_skip on its own
Tick(d) ==
    /\ ticks < MaxTicks
    /\ ticks' = ticks + 1
    /\ clock' = clock + d
    /\ UNCHANGED aside
    /\ UNCHANGED <<rule, forwarded_count, filtered_count, db, processed_groups,
                   dedup_cache, scratch, event, events_done, dpc,
                   matched, cur, pc, run, messages, downloaded_files, idx,
                   success_count, log, invoked, created, cleanup_calls, base,
                   admitted, last_skip>>

\* A call of rule r's MediaGroupHandler.should_skip(g).
ShouldSkipCall(r, g) ==
    /\ processed_groups' = [processed_groups EXCEPT
                              ![r] = should_skip_update(@, g, clock)]
    /\ last_skip' = [rule |-> r, gid |-> g, at |-> clock,
                     res |-> should_skip_result(processed_groups[r], g, clock),
                     prev |-> admitted[r][g]]
    /\ admitted' = IF should_skip_result(processed_groups[r], g, clock)
                   THEN admitted
                   ELSE [admitted EXCEPT ![r][g] = clock]
    /\ UNCHANGED aside
    /\ UNCHANGED <<rule, forwarded_count, filtered_count, db, dedup_cache,
                   clock, scratch, event, events_done, dpc, matched,
                   cur, pc, run, messages, downloaded_files, idx,
                   success_count, log, invoked, created, cleanup_calls, base,
                   ticks>>

NextSkip ==
    \/ \E d \in TickSteps : Tick(d)
    \/ \E g \in Gids : ShouldSkipCall(1, g)

InitSkip == InitWith([r \in Rules |-> DefaultRule]) /\ Unasked /\ Unconfigured

\* ------------------------------------------- is_duplicate on its own
Windows == {1, 3600}                 \* rule.deduplicate_window, in seconds
CheckedTexts == {<<"U">>, <<"h">>, <<" ">>} \* message.text or "" of the messages checked
DedupSteps == {1, 7200}              \* clock advances (ticks) between is_duplicate calls

\* A call of is_duplicate(text) on rule r's DeduplicateCache.
IsDuplicateCall(r, text) ==
    LET w == rule[r].deduplicate_window
        res == is_duplicate_result(dedup_cache[r], text, clock, w)
    IN /\ dedup_cache' = [dedup_cache EXCEPT
                            ![r] = is_duplicate_update(@, text, clock, w)]
       /\ last_dup' = [rule |-> r, text |-> text, at |-> clock, res |-> res,
                       prev |-> noted[r][text], hit |-> was_hit[r][text]]
       /\ noted' = IF res THEN noted ELSE [noted EXCEPT ![r][text] = clock]
       /\ was_hit' = [was_hit EXCEPT ![r][text] = res]
       /\ UNCHANGED <<rule, forwarded_count, filtered_count, db,
                      processed_groups, clock, scratch, event, events_done,
                      dpc, matched, cur, pc, run, messages, downloaded_files,
                      idx, success_count, log, invoked, created,
                      cleanup_calls, base, admitted, last_skip, ticks, probe,
                      config_state, assembled, conc_state, apart>>

NextDedup ==
    \/ \E d \in DedupSteps : Tick(d)
    \/ \E x \in CheckedTexts : IsDuplicateCall(1, x)

InitDedup ==
    /\ \E w \in Windows :
          InitWith([r \in Rules |->
              [DefaultRule EXCEPT !.deduplicate = TRUE, !.deduplicate_window = w]])
    /\ Unasked
    /\ Unconfigured

SpecDedup == InitDedup /\ [][NextDedup]_vars

\* ------------------------------------------- the filter on its own
\* Filters: every combination of mode, keywords, regex patterns (none, a
\* literal, one re.compile rejects, both), ignored users, ignored keywords,
\* allowed media types and size limits.
ProbeFilters ==
    {[mode |-> md, keywords |-> kw, regex_patterns |-> rx,
      ignored_user_ids |-> iu, ignored_keywords |-> ik, media_types |-> mt,
      min_file_size |-> sz[1], max_file_size |-> sz[2]] :
        md \in {"whitelist", "blacklist"},
        kw \in {{}, {<<"u">>}},
        rx \in {{}, {[lit |-> <<"h">>, valid |-> TRUE]},
                    {[lit |-> <<"[">>, valid |-> FALSE]},
                    {[lit |-> <<"h">>, valid |-> TRUE],
                     [lit |-> <<"[">>, valid |-> FALSE]}},
        iu \in {{}, {0}, {7}},
        ik \in {{}, {<<"H">>}},
        mt \in {{}, {"text"}},
        sz \in {<<0, 0>>, <<10, 0>>, <<0, 3>>}}

\* sender_id values; 0 is the integer Python takes as false.
ProbeSenders == {0} \cup Senders

\* Media groups as get_messages returns them (sorted by id).
ProbeGroups ==
    {<<Album1, Album2, Album3>>, <<Album1, Album3>>, <<Album1, Album2>>}

\* The same filter with the other mode.
Flipped(f) ==
    [f EXCEPT !.mode = IF f.mode = "whitelist" THEN "blacklist" ELSE "whitelist"]

\* message_filter.should_forward(m, sender_id=s), asked of rule 1's filter
\* and of the filter with the mode flipped.
ShouldForwardCall(m, s) ==
    /\ probe' = [fn |-> "message", msgs |-> <<m>>, sender |-> s,
                 res |-> should_forward(rule[1].filter, m, s),
                 flipped |-> should_forward(Flipped(rule[1].filter), m, s)]
    /\ UNCHANGED <<rule, forwarded_count, filtered_count, db,
                   processed_groups, dedup_cache, clock, scratch, event,
                   events_done, dpc, matched, cur, pc, run, messages,
                   downloaded_files, idx, success_count, log, invoked,
                   created, cleanup_calls, base, admitted, last_skip, ticks,
                   dedup_state, config_state, assembled, conc_state, apart>>

\* media_group.should_forward(msgs, message_filter, s).
GroupShouldForwardCall(msgs, s) ==
    /\ probe' = [fn |-> "group", msgs |-> msgs, sender |-> s,
                 res |-> group_should_forward(msgs, rule[1].filter, s),
                 flipped |-> group_should_forward(msgs, Flipped(rule[1].filter), s)]
    /\ UNCHANGED <<rule, forwarded_count, filtered_count, db,
                   processed_groups, dedup_cache, clock, scratch, event,
                   events_done, dpc, matched, cur, pc, run, messages,
                   downloaded_files, idx, success_count, log, invoked,
                   created, cleanup_calls, base, admitted, last_skip, ticks,
                   dedup_state, config_state, assembled, conc_state, apart>>

NextFilter ==
    \/ \E m \in Pool, s \in ProbeSenders : ShouldForwardCall(m, s)
    \/ \E g \in ProbeGroups, s \in ProbeSenders : GroupShouldForwardCall(g, s)

InitFilter ==
    /\ \E f \in ProbeFilters :
          InitWith([r \in Rules |-> [DefaultRule EXCEPT !.filter = f]])
    /\ Unasked
    /\ Unconfigured

SpecFilter == InitFilter /\ [][NextFilter]_vars

\* ------------------------------------------- the rule list of the config
\* Names as typed in the WebUI or given to /rule.
TypedNames == {<<"a">>, <<"b">>, <<" ", "a">>, <<>>}

Digits == <<"1", "2", "3", "4", "5", "6", "7", "8", "9">>

\* t("misc.rule_name_template", count=n): "Rule n".
rule_name_template(count) == <<"#", Digits[count]>>

\* A saved rule: the fields of its dict the rule operations read or write.
Saved(name, enabled) == [name |-> name, enabled |-> enabled]

\* AdminBotManager._find_rule(name) finds a rule.
find_rule(rules, name) == \E i \in 1..Len(rules) : rules[i].name = name

\* The position of the first rule called name.
FirstNamed(rules, name) ==
    CHOOSE k \in 1..Len(rules) :
        /\ rules[k].name = name
        /\ \A j \in 1..(k - 1) : rules[j].name # name

RemoveAt(rules, k) == SubSeq(rules, 1, k - 1) \o SubSeq(rules, k + 1, Len(rules))

\* A faulty variant of the guard: only an empty list refuses a delete.
delete_refused_when_empty(rules) == Len(rules) < 1

\* The guard of both delete operations: the last rule is not deleted.
delete_refused(rules) == Len(rules) <= 1

\* StatsDB.delete_rule
stats_delete_rule(rows, name) == rows \ {name}

\* StatsDB.rename_rule: one transaction; the primary key of rule_stats
\* makes the first UPDATE fail when new_name has rows already.
stats_rename_rule(rows, old_name, new_name) ==
    IF old_name \notin rows THEN rows
    ELSE IF new_name \in rows /\ new_name # old_name THEN rows
    ELSE (rows \ {old_name}) \cup {new_name}

\* The frame of the operations on the rule list.
ConfigFrame ==
    UNCHANGED <<rule, forwarded_count, filtered_count, db, processed_groups,
                dedup_cache, clock, scratch, event, events_done, dpc,
                matched, cur, pc, run, messages, downloaded_files, idx,
                success_count, log, invoked, created, cleanup_calls, base,
                admitted, last_skip, ticks, dedup_state, probe, assembled, conc_state, apart>>

\* The names of the saved rules.
RuleNames(rules) == {rules[i].name : i \in 1..Len(rules)}

\* The rule operations leave the running forwarders as they are: none of
\* them restarts the bot. old is the set of names the operation took from
\* a rule.
Retire(old) ==
    /\ retired' = old \ RuleNames(forwarding_rules')
    /\ UNCHANGED forwarders

\* ConfigHandler.add_rule(name)
WebAddRule(name) ==
    /\ Len(forwarding_rules) < MaxRules
    /\ LET n == IF Strip(name) = <<>>
                THEN rule_name_template(Len(forwarding_rules) + 1)
                ELSE Strip(name)
       IN forwarding_rules' = Append(forwarding_rules, Saved(n, FALSE))
    /\ UNCHANGED stats_rows
    /\ last_delete' = NoDelete
    /\ Retire({})
    /\ ConfigFrame

\* ConfigHandler.delete_rule(index); index counts from 0.
WebDeleteRule(index) ==
    /\ last_delete' = [made |-> TRUE, rules |-> forwarding_rules, rows |-> stats_rows]
    /\ IF delete_refused(forwarding_rules) \/ index >= Len(forwarding_rules)
       THEN UNCHANGED <<forwarding_rules, stats_rows>>
       ELSE /\ forwarding_rules' = RemoveAt(forwarding_rules, index + 1)
            /\ stats_rows' = stats_delete_rule(stats_rows,
                                               forwarding_rules[index + 1].name)
    /\ Retire(IF delete_refused(forwarding_rules) \/ index >= Len(forwarding_rules)
              THEN {} ELSE {forwarding_rules[index + 1].name})
    /\ ConfigFrame

\* ConfigHandler.rename_rule(index, new_name)
WebRenameRule(index, new_name) ==
    /\ IF Strip(new_name) = <<>> \/ index >= Len(forwarding_rules)
       THEN UNCHANGED <<forwarding_rules, stats_rows>>
       ELSE /\ forwarding_rules' =
                  [forwarding_rules EXCEPT ![index + 1].name = Strip(new_name)]
            /\ stats_rows' = stats_rename_rule(stats_rows,
                                               forwarding_rules[index + 1].name,
                                               Strip(new_name))
    /\ last_delete' = NoDelete
    /\ Retire(IF Strip(new_name) = <<>> \/ index >= Len(forwarding_rules)
              THEN {} ELSE {forwarding_rules[index + 1].name})
    /\ ConfigFrame

\* ConfigHandler.toggle_rule(index, enabled)
WebToggleRule(index, enabled) ==
    /\ forwarding_rules' =
          IF index >= Len(forwarding_rules) THEN forwarding_rules
          ELSE [forwarding_rules EXCEPT ![index + 1].enabled = enabled]
    /\ UNCHANGED stats_rows
    /\ last_delete' = NoDelete
    /\ Retire({})
    /\ ConfigFrame

\* AdminBotManager._rule_add: /rule add name
AdminRuleAdd(rule_name) ==
    /\ Len(forwarding_rules) < MaxRules
    /\ forwarding_rules' =
          IF find_rule(forwarding_rules, rule_name) THEN forwarding_rules
          ELSE Append(forwarding_rules, Saved(rule_name, FALSE))
    /\ UNCHANGED stats_rows
    /\ last_delete' = NoDelete
    /\ Retire({})
    /\ ConfigFrame

\* AdminBotManager._rule_del: /rule del name
AdminRuleDel(rule_name) ==
    /\ last_delete' = [made |-> TRUE, rules |-> forwarding_rules, rows |-> stats_rows]
    /\ IF ~find_rule(forwarding_rules, rule_name) \/ delete_refused(forwarding_rules)
       THEN UNCHANGED <<forwarding_rules, stats_rows>>
       ELSE /\ forwarding_rules' =
                  RemoveAt(forwarding_rules, FirstNamed(forwarding_rules, rule_name))
            /\ stats_rows' = stats_delete_rule(stats_rows, rule_name)
    /\ Retire(IF ~find_rule(forwarding_rules, rule_name) \/ delete_refused(forwarding_rules)
              THEN {} ELSE {rule_name})
    /\ ConfigFrame

\* AdminBotManager._rule_rename: /rule rename old_name new_name
AdminRuleRename(old_name, new_name) ==
    /\ IF \/ Strip(new_name) = <<>>
          \/ ~find_rule(forwarding_rules, old_name)
          \/ find_rule(forwarding_rules, new_name)
       THEN UNCHANGED <<forwarding_rules, stats_rows>>
       ELSE /\ forwarding_rules' =
                  [forwarding_rules EXCEPT
                      ![FirstNamed(forwarding_rules, old_name)].name = new_name]
            /\ stats_rows' = stats_rename_rule(stats_rows, old_name, new_name)
    /\ last_delete' = NoDelete
    /\ Retire(IF forwarding_rules' = forwarding_rules THEN {} ELSE {old_name})
    /\ ConfigFrame

\* AdminBotManager._rule_toggle: /rule toggle name
AdminRuleToggle(rule_name) ==
    /\ forwarding_rules' =
          IF ~find_rule(forwarding_rules, rule_name) THEN forwarding_rules
          ELSE [forwarding_rules EXCEPT
                  ![FirstNamed(forwarding_rules, rule_name)].enabled = ~@]
    /\ UNCHANGED stats_rows
    /\ last_delete' = NoDelete
    /\ Retire({})
    /\ ConfigFrame

\* BotManager._run_bot: a forwarder for each enabled rule, holding the
\* rule as the configuration has it at that moment.
RunBot ==
    /\ forwarders' = {forwarding_rules[i].name :
                         i \in {j \in 1..Len(forwarding_rules) : forwarding_rules[j].enabled}}
    /\ UNCHANGED <<forwarding_rules, stats_rows, retired>>
    /\ last_delete' = NoDelete
    /\ ConfigFrame

\* StatsDB.increment_forwarded: INSERT ... ON CONFLICT DO UPDATE makes the
\* row when there is none.
increment_forwarded(rows, rule_name) == rows \cup {rule_name}

\* MessageForwarder._log_result with success > 0, at the end of a run of
\* the forwarder made for the rule called name.
LogForwarded(name) ==
    /\ name \in forwarders
    /\ stats_rows' = increment_forwarded(stats_rows, name)
    /\ UNCHANGED <<forwarding_rules, forwarders, retired>>
    /\ last_delete' = NoDelete
    /\ ConfigFrame

NextRules ==
    \/ \E n \in TypedNames : WebAddRule(n)
    \/ \E i \in 0..MaxRules : WebDeleteRule(i)
    \/ \E i \in 0..MaxRules, n \in TypedNames : WebRenameRule(i, n)
    \/ \E i \in 0..MaxRules, e \in BOOLEAN : WebToggleRule(i, e)
    \/ \E n \in TypedNames : AdminRuleAdd(n)
    \/ \E n \in TypedNames : AdminRuleDel(n)
    \/ \E o \in TypedNames, n \in TypedNames : AdminRuleRename(o, n)
    \/ \E n \in TypedNames : AdminRuleToggle(n)

\* The configuration file as found: no rule, one rule or two, with stats
\* rows for none, one or both of the names.
SavedLists ==
    {<<>>, <<Saved(<<"a">>, TRUE)>>,
     <<Saved(<<"a">>, TRUE), Saved(<<"b">>, FALSE)>>}

InitRules ==
    /\ InitWith([r \in Rules |-> DefaultRule])
    /\ Unasked
    /\ forwarding_rules \in SavedLists
    /\ stats_rows \in {{}, {<<"a">>}, {<<"a">>, <<"b">>}}
    /\ last_delete = NoDelete
    /\ forwarders = {}
    /\ retired = {}

SpecRules == InitRules /\ [][NextRules]_vars

\* The renames and deletes while the bot runs: its forwarders go on
\* recording what they forward.
NextStale ==
    \/ RunBot
    \/ \E n \in forwarders : LogForwarded(n)
    \/ \E i \in 0..MaxRules : WebDeleteRule(i)
    \/ \E i \in 0..MaxRules, n \in TypedNames : WebRenameRule(i, n)
    \/ \E n \in TypedNames : AdminRuleDel(n)
    \/ \E o \in TypedNames, n \in TypedNames : AdminRuleRename(o, n)

\* Two rules, a stopped bot and a stats database with rows for none, one
\* or both of them.
InitStale ==
    /\ InitWith([r \in Rules |-> DefaultRule])
    /\ Unasked
    /\ forwarding_rules \in {<<Saved(<<"a">>, TRUE), Saved(<<"b">>, e)>> : e \in BOOLEAN}
    /\ stats_rows \in {{}, {<<"a">>}, {<<"a">>, <<"b">>}}
    /\ last_delete = NoDelete
    /\ forwarders = {}
    /\ retired = {}

SpecStale == InitStale /\ [][NextStale]_vars

\* --------------------------------------------- start, stop and restart
\* The bot thread exists and has not left _run_bot.
Alive(b) == bot[b].pc \notin {"none", "dead"}

ManagerFrame ==
    UNCHANGED <<rule, forwarded_count, filtered_count, db, processed_groups,
                dedup_cache, clock, scratch, event, events_done, dpc,
                matched, cur, pc, run, messages, downloaded_files, idx,
                success_count, log, invoked, created, cleanup_calls, base,
                admitted, last_skip, ticks, dedup_state, probe, config_state,
                assembled, conc_state, prepended>>

\* A control thread calls start(), stop() or restart().
Call(c, op) ==
    /\ ctl[c].pc \in {"idle", "returned"}
    /\ ctl' = [ctl EXCEPT ![c] =
                 [IdleCaller EXCEPT !.op = op,
                                    !.pc = IF op = "restart" THEN "restart_check"
                                           ELSE IF op = "stop" THEN "stop_check"
                                           ELSE "start_check",
                                    !.before = IF op = "start"
                                               THEN {b \in BotThreads : Alive(b)}
                                               ELSE {}]]
    /\ UNCHANGED <<is_running, stop_event, thread, bot>>
    /\ ManagerFrame

\* start(): if self.is_running: return False
start_refused(running) == running

StartCheck(c) ==
    /\ ctl[c].pc = "start_check"
    /\ ctl' = [ctl EXCEPT ![c].pc = IF start_refused(is_running) THEN "returned"
                                    ELSE "clear",
                          ![c].ret = FALSE]
    /\ UNCHANGED <<is_running, stop_event, thread, bot>>
    /\ ManagerFrame

\* start(): self._stop_event.clear()
StartClear(c) ==
    /\ ctl[c].pc = "clear"
    /\ stop_event' = FALSE
    /\ ctl' = [ctl EXCEPT ![c].pc = "spawn"]
    /\ UNCHANGED <<is_running, thread, bot>>
    /\ ManagerFrame

\* start(): self.thread = threading.Thread(...); self.thread.start();
\* return True
StartSpawn(c) ==
    /\ ctl[c].pc = "spawn"
    /\ \E b \in BotThreads :
          /\ bot[b].pc = "none"
          /\ \A x \in BotThreads : x < b => bot[x].pc # "none"
          /\ thread' = b
          /\ bot' = [bot EXCEPT ![b].pc = "created"]
          /\ ctl' = [ctl EXCEPT ![c].pc = "returned", ![c].ret = TRUE,
                                ![c].spawned = b]
    /\ UNCHANGED <<is_running, stop_event>>
    /\ ManagerFrame

\* restart(): if self.is_running: stop, sleep; then start
RestartCheck(c) ==
    /\ ctl[c].pc = "restart_check"
    /\ ctl' = [ctl EXCEPT ![c].pc = IF is_running THEN "stop_check" ELSE "start_check"]
    /\ UNCHANGED <<is_running, stop_event, thread, bot>>
    /\ ManagerFrame

\* stop(): if not self.is_running: return False; restart gives up when
\* its stop() returns False.
StopCheck(c) ==
    /\ ctl[c].pc = "stop_check"
    /\ ctl' = [ctl EXCEPT ![c].pc = IF is_running THEN "stop_set" ELSE "returned",
                          ![c].ret = FALSE]
    /\ UNCHANGED <<is_running, stop_event, thread, bot>>
    /\ ManagerFrame

\* stop(): self._stop_event.set()
StopSet(c) ==
    /\ ctl[c].pc = "stop_set"
    /\ stop_event' = TRUE
    /\ ctl' = [ctl EXCEPT ![c].pc = "join"]
    /\ UNCHANGED <<is_running, thread, bot>>
    /\ ManagerFrame

\* stop(): self.thread.join(timeout=BOT_STOP_TIMEOUT) returns when the
\* thread is over, or after ten seconds; a thread that connects or waits for
\* authentication input does not look at the stop event for longer than
\* that.
join_returns(b) == b = 0 \/ ~Alive(b) \/ bot[b].pc = "setup"

StopJoin(c) ==
    /\ ctl[c].pc = "join"
    /\ join_returns(thread)
    /\ ctl' = [ctl EXCEPT ![c].pc = "mark", ![c].joined = thread]
    /\ UNCHANGED <<is_running, stop_event, thread, bot>>
    /\ ManagerFrame

\* stop(): self.is_running = False; return True.  restart() sleeps
\* BOT_RESTART_DELAY and goes on to start().
StopMark(c) ==
    /\ ctl[c].pc = "mark"
    /\ is_running' = FALSE
    /\ ctl' = [ctl EXCEPT ![c].pc = IF ctl[c].op = "restart" THEN "start_check"
                                    ELSE "returned",
                          ![c].ret = TRUE,
                          ![c].left_alive = ctl[c].joined # 0 /\ Alive(ctl[c].joined)]
    /\ UNCHANGED <<stop_event, thread, bot>>
    /\ ManagerFrame

\* _bot_main: self.is_running = True
BotEnter(b) ==
    /\ bot[b].pc = "created"
    /\ is_running' = TRUE
    /\ bot' = [bot EXCEPT ![b].pc = "setup"]
    /\ UNCHANGED <<stop_event, thread, ctl>>
    /\ ManagerFrame

\* _bot_main: validate, connect (with the authentication dialogue),
\* forwarders and handler; a failure returns.
BotSetup(b, ok) ==
    /\ bot[b].pc = "setup"
    /\ bot' = [bot EXCEPT ![b] = IF ok THEN [pc |-> "loop", connected |-> TRUE]
                                 ELSE [pc |-> "leaving_main", connected |-> FALSE]]
    /\ UNCHANGED <<is_running, stop_event, thread, ctl>>
    /\ ManagerFrame

\* _bot_main: the loop sees the stop event; disconnect.
BotStopSeen(b) ==
    /\ bot[b].pc = "loop"
    /\ stop_event
    /\ bot' = [bot EXCEPT ![b] = [pc |-> "leaving_main", connected |-> FALSE]]
    /\ UNCHANGED <<is_running, stop_event, thread, ctl>>
    /\ ManagerFrame

\* finally of _bot_main: self.is_running = False
BotLeaveMain(b) ==
    /\ bot[b].pc = "leaving_main"
    /\ is_running' = FALSE
    /\ bot' = [bot EXCEPT ![b].pc = "leaving_run"]
    /\ UNCHANGED <<stop_event, thread, ctl>>
    /\ ManagerFrame

\* finally of _run_bot: self.loop.close(); self.is_running = False
BotLeaveRun(b) ==
    /\ bot[b].pc = "leaving_run"
    /\ is_running' = FALSE
    /\ bot' = [bot EXCEPT ![b].pc = "dead"]
    /\ UNCHANGED <<stop_event, thread, ctl>>
    /\ ManagerFrame

\* The bot thread from _run_bot to its end, without a stop.
BotRuns(b) ==
    \/ BotEnter(b)
    \/ \E ok \in BOOLEAN : BotSetup(b, ok)
    \/ BotLeaveMain(b)
    \/ BotLeaveRun(b)

\* start() called from several control threads.
NextStart ==
    \/ \E c \in Callers : Call(c, "start")
    \/ \E c \in Callers : StartCheck(c)
    \/ \E c \in Callers : StartClear(c)
    \/ \E c \in Callers : StartSpawn(c)
    \/ \E b \in BotThreads : BotRuns(b)

\* start(), stop() and restart() called from several control threads.
NextManager ==
    \/ \E c \in Callers, op \in {"start", "stop", "restart"} : Call(c, op)
    \/ \E c \in Callers : StartCheck(c)
    \/ \E c \in Callers : StartClear(c)
    \/ \E c \in Callers : StartSpawn(c)
    \/ \E c \in Callers : RestartCheck(c)
    \/ \E c \in Callers : StopCheck(c)
    \/ \E c \in Callers : StopSet(c)
    \/ \E c \in Callers : StopJoin(c)
    \/ \E c \in Callers : StopMark(c)
    \/ \E b \in BotThreads : BotRuns(b)
    \/ \E b \in BotThreads : BotStopSeen(b)

InitManager == InitWith([r \in Rules |-> DefaultRule]) /\ Unasked /\ Unconfigured

SpecStart == InitManager /\ [][NextStart]_vars

SpecManager == InitManager /\ [][NextManager]_vars

\* ------------------------------------------- _prepend_source on its own
\* Characters: "s" and "a" stand for characters of the Basic Multilingual
\* Plane, "E" for one outside it (U+1F600), "n" for the newline.
Astral == {"E"}

\* str.encode('utf-16-le') in 16-bit code units: a surrogate pair for a
\* character outside the Basic Multilingual Plane.
RECURSIVE encode_utf16(_)
encode_utf16(s) ==
    IF s = <<>> THEN <<>>
    ELSE (IF Head(s) \in Astral THEN <<"hi", "lo">> ELSE <<Head(s)>>)
         \o encode_utf16(Tail(s))

\* A faulty variant: len(prefix), the number of characters.
prefix_len_code_points(prefix) == Len(prefix)

\* len(prefix.encode('utf-16-le')) // 2: two bytes for each code unit.
prefix_len(prefix) == (2 * Len(encode_utf16(prefix))) \div 2

\* A format entity: the fields _prepend_source reads or writes.
Entity(offset, length) == [offset |-> offset, length |-> length]

\* MessageForwarder._prepend_source(text, source_text, entities)
prepend_source(text, source_text, entities) ==
    IF source_text = <<>> THEN [text |-> text, entities |-> entities]
    ELSE IF text = <<>> THEN [text |-> source_text, entities |-> entities]
    ELSE LET prefix == source_text \o <<"n", "n">>
         IN [text |-> prefix \o text,
             entities |-> [i \in 1..Len(entities) |->
                             Entity(entities[i].offset + prefix_len(prefix),
                                    entities[i].length)]]

\* The source lines and message texts tried, and the entities of a text:
\* none, one or two, anywhere in it.
SourceTexts == {<<>>, <<"s">>, <<"E">>, <<"s", "E">>, <<"E", "s", "E">>}
MessageTexts == {<<>>, <<"a">>, <<"E", "a">>, <<"a", "E", "a">>}

EntitiesOf(text) ==
    LET units == Len(encode_utf16(text))
        one == {Entity(o, l) : o \in 0..(units - 1), l \in 1..units}
        fits == {e \in one : e.offset + e.length <= units}
    IN {<<>>} \cup {<<e>> : e \in fits}
              \cup {<<e, f>> : e \in fits, f \in fits}

PrependSource(text, source_text, n) ==
    /\ \E entities \in EntitiesOf(text) :
          /\ Len(entities) = n
          /\ prepended' = [called |-> TRUE, text |-> text, source_text |-> source_text,
                           entities |-> entities,
                           res |-> prepend_source(text, source_text, entities)]
    /\ UNCHANGED <<rule, forwarded_count, filtered_count, db, processed_groups,
                   dedup_cache, clock, scratch, event, events_done, dpc,
                   matched, cur, pc, run, messages, downloaded_files, idx,
                   success_count, log, invoked, created, cleanup_calls, base,
                   admitted, last_skip, ticks, dedup_state, probe, config_state,
                   assembled, conc_state, manager_state>>

NextSource ==
    \E text \in MessageTexts, source_text \in SourceTexts, n \in 0..2 :
        PrependSource(text, source_text, n)

InitSource == InitWith([r \in Rules |-> DefaultRule]) /\ Unasked /\ Unconfigured

SpecSource == InitSource /\ [][NextSource]_vars

SpecSkip == InitSkip /\ [][NextSkip]_vars

\* ------------------------------------------- get_messages on its own
\* A message of chat 1 with the given id and grouped id; grouped messages
\* are photos, the others text.
Posted(id, gid) ==
    [media |-> IF gid = 0 THEN "none" ELSE "photo",
     size |-> IF gid = 0 THEN 0 ELSE 5,
     text |-> IF gid = 0 THEN <<"U">> ELSE <<>>,
     id |-> id, gid |-> gid, chat |-> 1, sender |-> 7, noforwards |-> FALSE]

\* Which group the message with an id belongs to: one album, two albums
\* interleaved, an album interleaved with text messages.
Layouts == {"album", "two_albums", "album_and_text"}

GroupOf(layout, id) ==
    IF layout = "album" THEN 70
    ELSE IF layout = "two_albums" THEN (IF id % 3 = 0 THEN 71 ELSE 70)
    ELSE (IF id % 2 = 0 THEN 0 ELSE 70)

\* What iter_messages yields for a chat that holds n messages: newest first.
RECURSIVE ChatHistory(_, _)
ChatHistory(layout, n) ==
    IF n = 0 THEN <<>>
    ELSE <<Posted(n, GroupOf(layout, n))>> \o ChatHistory(layout, n - 1)

\* The messages of a list in the order a delivery passes them on:
\* forward_messages takes the list, send_file the media of its members.
media_list(msgs) == SelectSeq(msgs, LAMBDA m : m.media \notin {"none", "webpage"})

RECURSIVE Ids(_)
Ids(msgs) == IF msgs = <<>> THEN <<>> ELSE <<Head(msgs).id>> \o Ids(Tail(msgs))

SentIds(kind, msgs) == Ids(IF kind = "direct" THEN msgs ELSE media_list(msgs))

\* get_messages for message `id` of a chat that holds n messages in the
\* given layout; the history query raises or yields the chat's history.
GetMessagesCall(layout, n, id, raised) ==
    /\ LET m == Posted(id, GroupOf(layout, id))
           q == [raised |-> raised,
                 hist |-> IF raised THEN <<>> ELSE ChatHistory(layout, n)]
       IN assembled' = [fn |-> "get_messages", msg |-> m, q |-> q,
                        list |-> get_messages(m, q), sent |-> <<>>]
    /\ UNCHANGED <<rule, forwarded_count, filtered_count, db,
                   processed_groups, dedup_cache, clock, scratch, event,
                   events_done, dpc, matched, cur, pc, run, messages,
                   downloaded_files, idx, success_count, log, invoked,
                   created, cleanup_calls, base, admitted, last_skip, ticks,
                   dedup_state, probe, config_state, conc_state, apart>>

\* One delivery of the assembled list.
SendCall(kind) ==
    /\ assembled.fn = "get_messages"
    /\ assembled' = [assembled EXCEPT !.fn = kind,
                                      !.sent = SentIds(kind, assembled.list)]
    /\ UNCHANGED <<rule, forwarded_count, filtered_count, db,
                   processed_groups, dedup_cache, clock, scratch, event,
                   events_done, dpc, matched, cur, pc, run, messages,
                   downloaded_files, idx, success_count, log, invoked,
                   created, cleanup_calls, base, admitted, last_skip, ticks,
                   dedup_state, probe, config_state, conc_state, apart>>

NextGroup ==
    \/ \E layout \in Layouts, n \in 0..MaxHistory, id \in 1..(MaxHistory + 1),
          raised \in BOOLEAN : GetMessagesCall(layout, n, id, raised)
    \/ \E kind \in Delivery : SendCall(kind)

InitGroup == InitWith([r \in Rules |-> DefaultRule]) /\ Unasked /\ Unconfigured

SpecGroup == InitGroup /\ [][NextGroup]_vars

\* ------------------------------ pipelines of one rule running together
\* The client starts one task per new-message update, and a task runs until
\* it awaits: the actions below are the stretches between two awaits of
\* _central_message_handler -> handle_message -> forward_message for rule 1.
ConcFrame ==
    UNCHANGED <<rule, processed_groups, dedup_cache, clock, scratch, event,
                events_done, dpc, matched, cur, pc, run, messages,
                downloaded_files, idx, success_count, log, invoked, created,
                cleanup_calls, base, admitted, last_skip, ticks, dedup_state,
                probe, config_state, assembled, apart>>

InFlight(t) == task[t].pc \in {"history", "targets"}

Overlaps(t) == \E u \in Tasks \ {t} : InFlight(u)

\* Something is posted to source chat 1, with ids above those the chat
\* holds: the history has it at once.
Post(ms) ==
    /\ \A i \in 1..Len(ms), j \in 1..Len(posted) : ms[i].id > posted[j].id
    /\ posted' = [i \in 1..Len(ms) |-> Arrived(ms[Len(ms) + 1 - i], 1, 7, FALSE)]
                    \o posted
    /\ UNCHANGED <<task, deliveries, forwarded_count, filtered_count, db>>
    /\ ConcFrame

\* The update for posted message number k reaches the handler in a new
\* task, which runs to its first await after the entity lookups: the sleep
\* of get_messages for an album member, the first delivery otherwise.
TaskArrive(t, k) ==
    /\ task[t].pc = "idle"
    /\ \A u \in Tasks : u < t => task[u].pc # "idle"
    /\ k \in 1..Len(posted)
    /\ \A u \in Tasks : task[u].msg.id # posted[k].id
    /\ LET e == posted[k]
           accepted == e.gid # 0 \/ should_forward(rule[1].filter, e, e.sender)
           check == PrecheckOf(1, e, <<e>>, clock)
       IN IF ~accepted
          THEN /\ filtered_count' = [filtered_count EXCEPT ![1] = @ + 1]
               /\ task' = [task EXCEPT ![t] =
                              [IdleTask EXCEPT !.pc = "done", !.msg = e,
                                               !.outcome = "rejected"]]
               /\ UNCHANGED <<db, dedup_cache>>
          ELSE IF e.gid # 0
          THEN /\ task' = [task EXCEPT ![t] =
                              [IdleTask EXCEPT !.pc = "history", !.msg = e]]
               /\ UNCHANGED <<filtered_count, db, dedup_cache>>
          ELSE /\ dedup_cache' =
                    IF rule[1].deduplicate
                    THEN [dedup_cache EXCEPT
                            ![1] = is_duplicate_update(@, e.text, clock,
                                                       rule[1].deduplicate_window)]
                    ELSE dedup_cache
               /\ filtered_count' =
                    [filtered_count EXCEPT ![1] = count_filtered(@, check)]
               /\ db' = [db EXCEPT ![1].filtered = count_filtered(@, check)]
               /\ task' = [task EXCEPT ![t] =
                              IF check = "duplicate"
                              THEN [IdleTask EXCEPT !.pc = "done", !.msg = e,
                                                    !.outcome = "duplicate"]
                              ELSE [IdleTask EXCEPT !.pc = "targets", !.msg = e,
                                                    !.messages = <<e>>,
                                                    !.idx = 1]]
    /\ UNCHANGED <<posted, deliveries, forwarded_count>>
    /\ UNCHANGED <<rule, processed_groups, clock, scratch, event,
                   events_done, dpc, matched, cur, pc, run, messages,
                   downloaded_files, idx, success_count, log, invoked, created,
                   cleanup_calls, base, admitted, last_skip, ticks, noted,
                   last_dup, was_hit, probe, config_state, assembled, apart>>

\* The sleep and the history query of get_messages are over: the checks of
\* forward_message up to its first delivery.
TaskHistory(t, raised) ==
    /\ task[t].pc = "history"
    /\ LET e == task[t].msg
           now == clock + 1
           msgs == get_messages(e, [raised |-> raised,
                                    hist |-> IF raised THEN <<>> ELSE posted])
           is_media_group == Len(msgs) > 1
           check == PrecheckOf(1, e, msgs, now)
       IN /\ clock' = now
          /\ processed_groups' =
                IF is_media_group
                THEN [processed_groups EXCEPT
                        ![1] = should_skip_update(@, e.gid, now)]
                ELSE processed_groups
          /\ dedup_cache' =
                IF rule[1].deduplicate /\ check \in {"duplicate", "deliver"}
                THEN [dedup_cache EXCEPT
                        ![1] = is_duplicate_update(@, e.text, now,
                                                   rule[1].deduplicate_window)]
                ELSE dedup_cache
          /\ filtered_count' =
                [filtered_count EXCEPT ![1] = count_filtered(@, check)]
          /\ db' = [db EXCEPT ![1].filtered = count_filtered(@, check)]
          /\ task' = [task EXCEPT ![t] =
                IF check = "deliver"
                THEN [@ EXCEPT !.pc = "targets", !.messages = msgs, !.idx = 1,
                               !.overlapped = @ \/ Overlaps(t)]
                ELSE [@ EXCEPT !.pc = "done", !.messages = msgs,
                               !.outcome = IF check = "skip" THEN "skipped"
                                           ELSE check,
                               !.overlapped = @ \/ Overlaps(t)]]
    /\ UNCHANGED <<posted, deliveries, forwarded_count>>
    /\ UNCHANGED <<rule, scratch, event, events_done, dpc, matched, cur, pc,
                   run, messages, downloaded_files, idx, success_count, log,
                   invoked, created, cleanup_calls, base, admitted, last_skip,
                   ticks, noted, last_dup, was_hit, probe, config_state,
                   assembled, apart>>

Delivered(d, msgs, target) ==
    [x \in PostedIds \X TargetIds |->
        IF x[2] = target /\ \E i \in 1..Len(msgs) : msgs[i].id = x[1]
        THEN d[x] + 1 ELSE d[x]]

\* The delivery to the next target returned or raised; after the last
\* target the run is logged before anything is awaited.
TaskAttempt(t, o) ==
    /\ task[t].pc = "targets"
    /\ LET target == Targets(1)[task[t].idx]
           success == IF o = "ok" THEN task[t].success_count + 1
                      ELSE task[t].success_count
           last == task[t].idx = Len(Targets(1))
       IN /\ deliveries' = IF o = "ok"
                           THEN Delivered(deliveries, task[t].messages, target)
                           ELSE deliveries
          /\ forwarded_count' =
                IF last
                THEN [forwarded_count EXCEPT ![1] = log_result_count(@, success)]
                ELSE forwarded_count
          /\ db' =
                IF last
                THEN [db EXCEPT ![1].forwarded = log_result_count(@, success),
                                ![1].history = log_result_history(@, success)]
                ELSE db
          /\ task' = [task EXCEPT ![t] =
                [@ EXCEPT !.success_count = success,
                          !.idx = @ + 1,
                          !.pc = IF last THEN "done" ELSE "targets",
                          !.outcome = IF ~last THEN "none"
                                      ELSE IF success > 0 THEN "forwarded"
                                      ELSE "failed",
                          !.overlapped = @ \/ Overlaps(t)]]
    /\ UNCHANGED <<posted, filtered_count>>
    /\ ConcFrame

NextConc ==
    \/ \E ms \in Posts : Post(ms)
    \/ \E t \in Tasks, k \in 1..4 : TaskArrive(t, k)
    \/ \E t \in Tasks, raised \in BOOLEAN : TaskHistory(t, raised)
    \/ \E t \in Tasks, o \in {"ok", "error"} : TaskAttempt(t, o)

\* One rule for source chat 1, with one or two targets, with or without a
\* blacklisted keyword and deduplication.
ConcConfigs ==
    {[DefaultRule EXCEPT !.target_chats = tl, !.filter = f, !.deduplicate = dd] :
        tl \in TargetLists,
        f \in {DefaultFilter, [DefaultFilter EXCEPT !.keywords = {<<"u">>}]},
        dd \in BOOLEAN}

InitConc ==
    /\ \E cfg \in ConcConfigs :
          InitWith([r \in Rules |-> IF r = 1 THEN cfg
                                    ELSE [DefaultRule EXCEPT !.enabled = FALSE]])
    /\ Unasked
    /\ Unconfigured

SpecConc == InitConc /\ [][NextConc]_vars

\* ======================================================== properties

\* log positions of the first (non-fallback) attempts.
IsFirstAttempt(i) == log[i].op \in Delivery /\ ~log[i].fb

\* The first attempts of rule r, in order.
Attempts(r) == SelectSeq(log, LAMBDA e : e.rule = r /\ e.op \in Delivery /\ ~e.fb)

\* handle_message of rule r has been called and has returned or raised.
Finished(r) == invoked[r] > 0 /\ (cur # r \/ pc \in {"done", "raised"})

\* The forward_message run of log[i] held downloaded files before log[i].
HeldBefore(i) ==
    \E j \in 1..(i - 1) :
        /\ log[j].op = "download" /\ log[j].rule = log[i].rule
        /\ log[j].run = log[i].run /\ log[j].res = "ok" /\ log[j].n > 0

\* The run of rule r went through its target loop.
LoopCompleted(r) == \E i \in 1..Len(log) : log[i].rule = r /\ log[i].op = "result"

C2_PartialTargetSuccess ==
    \A r \in Rules :
        LET tried == Attempts(r) IN
        /\ Len(tried) <= Len(Targets(r))
        /\ \A k \in 1..Len(tried) : tried[k].target = Targets(r)[k]
        /\ (Finished(r) /\ LoopCompleted(r)) =>
              /\ Len(tried) = Len(Targets(r))
              /\ forwarded_count[r] - base.forwarded[r] =
                    IF \E i \in 1..Len(log) :
                          log[i].rule = r /\ log[i].op \in Delivery /\ log[i].res = "ok"
                    THEN 1 ELSE 0

C2_Witness ==
    /\ pc = "done"
    /\ Len(Targets(cur)) = 2
    /\ Len(Attempts(cur)) = 2
    /\ Attempts(cur)[1].res = "error"
    /\ Attempts(cur)[2].res = "ok"
    /\ forwarded_count[cur] = base.forwarded[cur] + 1

\* Number of cleanup calls a file was passed to.
CleanedTimes(f) ==
    Cardinality({k \in 1..Len(cleanup_calls) : f \in Range(cleanup_calls[k])})

\* C3: when handle_message is over, every file written to the scratch
\* directory for the event was passed to cleanup exactly once and is gone.
C3_CleanupUnconditional ==
    (pc \in {"done", "raised"}) =>
        \A f \in created : f \notin scratch /\ CleanedTimes(f) = 1

\* C4: a rate-limit signal of any transport call of the first run is
\* followed by the retry run.
C4_RateLimitRetry ==
    (pc = "done") =>
        \A i \in 1..Len(log) :
            (log[i].rule = cur /\ log[i].run = 1 /\ log[i].res = "flood") => run = 2

\* C5: handle_message never raises into the dispatcher.
C5_NoEscape == pc # "raised" /\ dpc # "crashed"

\* C6: after the handler returned for a message without grouped id, every
\* active rule of the chat was invoked exactly once if its filter passes and
\* had filtered_count raised by exactly 1 if not.
C6_PerRuleDecision ==
    (dpc = "done" /\ event.gid = 0) =>
        \A r \in Active :
            (event.chat \in rule[r].source_chats) =>
                IF should_forward(rule[r].filter, event, event.sender)
                THEN invoked[r] = 1
                ELSE invoked[r] = 0 /\ filtered_count[r] = base.filtered[r] + 1

\* C7 as stated: under hide_sender every first attempt is a reference-copy
\* with the custom attribution block (the block exists when add_source_info
\* is set).
C7_AlwaysReferenceCopy ==
    \A i \in 1..Len(log) :
        (IsFirstAttempt(i) /\ rule[log[i].rule].hide_sender) =>
            /\ log[i].op = "copy"
            /\ rule[log[i].rule].add_source_info => log[i].attrib = "custom"

\* C7 amended: under hide_sender no delivery is a direct forward, every
\* delivery carries the custom attribution block when add_source_info is
\* set and no attribution otherwise, and a first attempt is a reference-copy
\* unless the run already holds downloaded files, when it is a reupload.
C7_HideSender ==
    \A i \in 1..Len(log) :
        (log[i].op \in Delivery /\ rule[log[i].rule].hide_sender) =>
            /\ log[i].op # "direct"
            /\ log[i].attrib = IF rule[log[i].rule].add_source_info
                               THEN "custom" ELSE "none"
            /\ ~log[i].fb =>
                  log[i].op = IF HeldBefore(i) THEN "reupload" ELSE "copy"

C7_Witness ==
    /\ pc = "done"
    /\ rule[cur].hide_sender /\ rule[cur].preserve_format
    /\ \E i \in 1..Len(log) :
          IsFirstAttempt(i) /\ log[i].op = "reupload" /\ log[i].attrib = "custom"

\* The precedence table of the delivery engine, hide_sender off.
SpecTable(restricted, force, preserve) ==
    IF restricted /\ force THEN "reupload"
    ELSE IF restricted THEN "copy"
    ELSE IF preserve THEN "direct"
    ELSE "copy"

\* C8 as stated: with hide_sender off every first attempt uses the
\* strategy of the table.
C8_TableAlways ==
    \A i \in 1..Len(log) :
        (IsFirstAttempt(i) /\ ~rule[log[i].rule].hide_sender) =>
            log[i].op = SpecTable(event.noforwards,
                                  rule[log[i].rule].force_forward,
                                  rule[log[i].rule].preserve_format)

\* C8 amended: with hide_sender off a first attempt uses the strategy of
\* the table as long as the run holds no files of an earlier fallback, and
\* is a reupload once it does.
C8_TableUnlessFilesHeld ==
    \A i \in 1..Len(log) :
        (IsFirstAttempt(i) /\ ~rule[log[i].rule].hide_sender) =>
            /\ log[i].op =
                  IF HeldBefore(i) THEN "reupload"
                  ELSE SpecTable(event.noforwards,
                                 rule[log[i].rule].force_forward,
                                 rule[log[i].rule].preserve_format)
            /\ (event.noforwards /\ rule[log[i].rule].force_forward) => HeldBefore(i)

C8_Witness ==
    /\ pc = "done"
    /\ ~rule[cur].hide_sender /\ ~event.noforwards /\ rule[cur].preserve_format
    /\ Len(Attempts(cur)) = 2
    /\ Attempts(cur)[1].op = "direct" /\ Attempts(cur)[1].res = "restricted"
    /\ Attempts(cur)[2].op = "reupload"

\* C9: in a restricted chat without force_forward a failed reference-copy
\* is followed by the fallback on the same target, whatever the exception.
C9_AnyFailureFallsBack ==
    \A i \in 1..Len(log) :
        (/\ IsFirstAttempt(i) /\ log[i].op = "copy" /\ log[i].res # "ok"
         /\ event.noforwards /\ ~rule[log[i].rule].force_forward) =>
            \/ i = Len(log) /\ pc = "fallback"
            \/ /\ i < Len(log)
               /\ log[i + 1].fb /\ log[i + 1].target = log[i].target

\* C10: a should_skip(g) call returns TRUE exactly when an earlier call for
\* g returned FALSE less than the TTL before it, and after every call the
\* time recorded for g is that of the last call that returned FALSE.
C10_SkipUntilTtl ==
    (last_skip.rule # 0) =>
        /\ last_skip.res =
              (/\ last_skip.prev # NoTs
               /\ last_skip.at - last_skip.prev < 3600 * TicksPerSecond)
        /\ processed_groups[last_skip.rule][last_skip.gid] =
              admitted[last_skip.rule][last_skip.gid]
        /\ ~last_skip.res => admitted[last_skip.rule][last_skip.gid] = last_skip.at

C10_Witness ==
    /\ last_skip.rule # 0
    /\ ~last_skip.res
    /\ last_skip.prev # NoTs
    /\ last_skip.at - last_skip.prev = 3600 * TicksPerSecond

\* C11: for a text that is not blank, an is_duplicate call returns TRUE
\* exactly when an earlier call for the text returned FALSE less than the
\* window before it; the first call and the first call a full window after
\* the recording one return FALSE and record the text anew.
C11_DedupRoundTrip ==
    (last_dup.rule # 0 /\ Strip(last_dup.text) # <<>>) =>
        /\ last_dup.res =
              (/\ last_dup.prev # NoTs
               /\ last_dup.at - last_dup.prev <
                     rule[last_dup.rule].deduplicate_window * TicksPerSecond)
        /\ ~last_dup.res =>
              /\ noted[last_dup.rule][last_dup.text] = last_dup.at
              /\ dedup_cache[last_dup.rule][last_dup.text] = last_dup.at
        /\ last_dup.res =>
              dedup_cache[last_dup.rule][last_dup.text] = last_dup.prev

C11_Witness ==
    /\ last_dup.rule # 0
    /\ last_dup.text = <<"U">>
    /\ ~last_dup.res
    /\ last_dup.prev # NoTs
    /\ last_dup.at - last_dup.prev =
          rule[last_dup.rule].deduplicate_window * TicksPerSecond

\* The members of the probed group that pass the filter on their own.
Passing ==
    {i \in 1..Len(probe.msgs) :
        should_forward(rule[1].filter, probe.msgs[i], probe.sender)}

\* Some member of the probed group carries text.
HasText == \E i \in 1..Len(probe.msgs) : probe.msgs[i].text # <<>>

\* C12: for a media group with text on some member, should_forward of the
\* group is TRUE exactly when at least one member passes the filter.
C12_GroupOr ==
    (probe.fn = "group" /\ HasText) => (probe.res = (Passing # {}))

C12_Witness ==
    /\ probe.fn = "group"
    /\ Len(probe.msgs) = 3
    /\ Passing = {2}
    /\ probe.res

\* C13: for a media group with no text on any member, should_forward of the
\* group is TRUE whatever the filter is.
C13_PureMediaPass ==
    (probe.fn = "group" /\ ~HasText) => probe.res

C13_Witness ==
    /\ probe.fn = "group"
    /\ ~HasText
    /\ Passing = {}
    /\ rule[1].filter.mode = "whitelist"
    /\ rule[1].filter.keywords # {}
    /\ rule[1].filter.media_types = {"text"}
    /\ probe.sender \in rule[1].filter.ignored_user_ids
    /\ probe.res

\* The probed message and the checks that come before the text rules.
Probed == probe.msgs[1]

PassesEarlyChecks ==
    /\ ~is_ignored(rule[1].filter, Probed.text, probe.sender)
    /\ check_media_type(rule[1].filter, Probed)
    /\ check_file_size(rule[1].filter, Probed)

NothingConfigured ==
    rule[1].filter.keywords = {} /\ rule[1].filter.regex_patterns = {}

C15_IgnoredSender ==
    (probe.fn = "message" /\ probe.sender \in rule[1].filter.ignored_user_ids) =>
        ~probe.res

\* C16: with a keyword or regex pattern configured, for a message that is
\* not ignored and passes the media-type and file-size checks, the decision
\* under whitelist is the negation of the decision under blacklist.
C16_Duality ==
    (probe.fn = "message" /\ ~NothingConfigured /\ PassesEarlyChecks) =>
        (probe.flipped = ~probe.res)

C16_Witness ==
    /\ probe.fn = "message"
    /\ rule[1].filter.mode = "whitelist"
    /\ rule[1].filter.keywords = {<<"u">>}
    /\ Probed.text = <<"U">>
    /\ PassesEarlyChecks
    /\ probe.res /\ ~probe.flipped

\* A non-grouped message from an unrestricted chat was handled by a rule
\* with preserve_format, without hide_sender and with two targets, and the
\* transport accepted every delivery.
PassScenario ==
    /\ pc = "done" /\ cur # 0
    /\ event.gid = 0 /\ ~event.noforwards
    /\ should_forward(rule[cur].filter, event, event.sender)
    /\ rule[cur].preserve_format /\ ~rule[cur].hide_sender
    /\ Len(Targets(cur)) = 2
    /\ \A i \in 1..Len(log) : log[i].op \in Delivery => log[i].res = "ok"

\* The transport calls and sleeps of the pass scenario.
PassTrace ==
    LET d == rule[cur].delay
        pause == IF d > 0 THEN <<Slept(d)>> ELSE <<>>
    IN <<Entry("direct", rule[cur].target_chats[1], FALSE, "native", "ok", 0)>>
       \o pause
       \o <<Entry("direct", rule[cur].target_chats[2], FALSE, "native", "ok", 0)>>
       \o <<Entry("result", 0, FALSE, "none", "forwarded", 2)>>
       \o pause

\* C17: in the pass scenario the rule made exactly one direct forward to
\* the first target, then (after rule.delay, when it is positive) exactly
\* one to the second and no other delivery or download; forwarded_count
\* rose by exactly 1 and filtered_count did not change.
C17_EndToEndPass ==
    PassScenario =>
        /\ log = PassTrace
        /\ forwarded_count[cur] = base.forwarded[cur] + 1
        /\ filtered_count[cur] = base.filtered[cur]
        /\ invoked[cur] = 1

C17_Witness ==
    /\ PassScenario
    /\ rule[cur].delay > 0
    /\ Len(log) = 5
    /\ forwarded_count[cur] = base.forwarded[cur] + 1

\* A non-grouped message arrived from a chat only rule r listens to, r's
\* filter rejects it, and the handler is through.
RejectScenario(r) ==
    /\ dpc = "done"
    /\ event.gid = 0
    /\ {x \in Active : event.chat \in rule[x].source_chats} = {r}
    /\ ~should_forward(rule[r].filter, event, event.sender)

\* C18: in the reject scenario no forwarder was invoked and no transport
\* call was made, forwarded_count is unchanged and the rule's
\* filtered_count rose by exactly 1.
C18_EndToEndReject ==
    \A r \in Rules :
        RejectScenario(r) =>
            /\ log = <<>>
            /\ \A x \in Rules : invoked[x] = 0
            /\ created = {}
            /\ forwarded_count = base.forwarded
            /\ filtered_count[r] = base.filtered[r] + 1

C18_Witness ==
    /\ RejectScenario(2)
    /\ event.chat = 2
    /\ rule[2].filter.mode = "whitelist"
    /\ filtered_count[2] = 1
    /\ filtered_count[1] = 0

\* C19: when the handler is over for a message with a grouped id, every
\* active rule of its chat had its forwarder invoked exactly once, a rule
\* that does not listen to the chat was not invoked, and a rule's
\* filtered_count moved only if its forwarder was invoked.
C19_AlbumHandOff ==
    (dpc \in {"done", "crashed"} /\ event.gid # 0) =>
        \A r \in Active :
            /\ (event.chat \in rule[r].source_chats) => invoked[r] = 1
            /\ (event.chat \notin rule[r].source_chats) => invoked[r] = 0
            /\ (invoked[r] = 0) => filtered_count[r] = base.filtered[r]

\* C20: no two rules of the saved rule list have the same name.
C20_UniqueNames ==
    \A i \in 1..Len(forwarding_rules), j \in 1..Len(forwarding_rules) :
        i # j => forwarding_rules[i].name # forwarding_rules[j].name

\* C21: every operation on a rule list with at least one rule leaves at
\* least one rule, and a delete request that finds exactly one rule leaves
\* the rule list and the rows of the stats database as they were.
C21_LastRuleKept ==
    [][/\ Len(forwarding_rules) >= 1 => Len(forwarding_rules') >= 1
       /\ (last_delete'.made /\ Len(forwarding_rules) = 1) =>
             /\ forwarding_rules' = forwarding_rules
             /\ stats_rows' = stats_rows]_vars

C21_Witness ==
    /\ last_delete.made
    /\ Len(last_delete.rules) = 1
    /\ last_delete.rules[1].name \in last_delete.rows
    /\ forwarding_rules = last_delete.rules

\* Some delivery of rule r was accepted by the transport.
SomeSuccess(r) ==
    \E i \in 1..Len(log) :
        log[i].rule = r /\ log[i].op \in Delivery /\ log[i].res = "ok"

NextAttempt(i, j) ==
    /\ i < j
    /\ IsFirstAttempt(i) /\ IsFirstAttempt(j)
    /\ log[i].rule = log[j].rule /\ log[i].run = log[j].run
    /\ \A k \in (i + 1)..(j - 1) : ~IsFirstAttempt(k)

\* C24: with a positive delay, a sleep of that length lies between the
\* attempt on a target and the attempt on the next, whatever the outcome of
\* the earlier attempt, and none lies between the attempt on the last
\* target and the end of the loop.
C24_InterTargetDelay ==
    \A i \in 1..Len(log), j \in 1..Len(log) :
        /\ (NextAttempt(i, j) /\ rule[log[i].rule].delay > 0) =>
              \E k \in (i + 1)..(j - 1) :
                  log[k].op = "sleep" /\ log[k].n = rule[log[i].rule].delay
        /\ (IsFirstAttempt(i) /\ log[j].op = "result" /\ i < j
              /\ \A k \in (i + 1)..(j - 1) : ~IsFirstAttempt(k)) =>
              \A k \in (i + 1)..(j - 1) : log[k].op # "sleep"

\* log positions of the downloads of run u of rule r.
Downloads(r, u) ==
    {i \in 1..Len(log) : log[i].op = "download" /\ log[i].rule = r /\ log[i].run = u}

\* C25 as stated: a forward_message run calls the downloader at most once.
C25_DownloadOnce ==
    \A r \in Rules, u \in {1, 2} : Cardinality(Downloads(r, u)) <= 1

\* C25 amended: once a download of the run returned files the downloader is
\* not called again in the run and every later delivery of the run uploads
\* those files; only a download that returned no file is repeated.
C25_DownloadOnceWithFiles ==
    \A i \in 1..Len(log) :
        (log[i].op = "download" /\ log[i].res = "ok" /\ log[i].n > 0) =>
            \A j \in (i + 1)..Len(log) :
                (log[j].rule = log[i].rule /\ log[j].run = log[i].run) =>
                    /\ log[j].op # "download"
                    /\ log[j].op \in Delivery => log[j].op = "reupload"

C25_Witness ==
    /\ pc = "done"
    /\ Len(Attempts(cur)) = 2
    /\ Attempts(cur)[1].res = "restricted"
    /\ Attempts(cur)[2].op = "reupload" /\ Attempts(cur)[2].res = "ok"
    /\ Cardinality(Downloads(cur, run)) = 1
    /\ \E i \in 1..Len(log) : log[i].op = "reupload" /\ log[i].fb /\ log[i].res = "ok"

\* log positions of the history queries that raised.
FailedQueries == {i \in 1..Len(log) : log[i].op = "history" /\ log[i].res = "error"}

\* C26: for a message without grouped id get_messages gives the message
\* alone without a history query; when the history query raises it gives
\* the message alone as well, and the run goes on to its download or its
\* first delivery.
C26_AssemblyNeverAborts ==
    /\ (cur # 0 /\ pc \notin {"none", "forward_message"}) =>
          /\ event.gid = 0 =>
                /\ messages = <<event>>
                /\ \A i \in 1..Len(log) : log[i].op # "history"
          /\ (\E i \in FailedQueries :
                  log[i].run = run /\ \A k \in (i + 1)..Len(log) : log[k].op # "history") =>
                messages = <<event>>
    /\ \A i \in FailedQueries :
          IF i = Len(log) THEN pc \in {"prefetch", "targets"}
          ELSE log[i + 1].op \in Delivery \cup {"download"}

C26_Witness ==
    /\ pc = "done"
    /\ event.gid # 0
    /\ FailedQueries # {}
    /\ messages = <<event>>
    /\ SomeSuccess(cur)
    /\ forwarded_count[cur] = base.forwarded[cur] + 1

\* C28: a call for a text that had a duplicate hit since it was recorded
\* is decided by the time of the recording alone: it returns TRUE while less
\* than the window has passed since then, with the recorded time unchanged,
\* and FALSE from then on, recording the text anew.
C28_HitDoesNotRefresh ==
    (last_dup.rule # 0 /\ last_dup.hit) =>
        /\ last_dup.prev # NoTs
        /\ last_dup.res =
              (last_dup.at - last_dup.prev <
                  rule[last_dup.rule].deduplicate_window * TicksPerSecond)
        /\ dedup_cache[last_dup.rule][last_dup.text] =
              IF last_dup.res THEN last_dup.prev ELSE last_dup.at

C28_Witness ==
    /\ last_dup.rule # 0
    /\ last_dup.hit
    /\ last_dup.at - last_dup.prev =
          rule[last_dup.rule].deduplicate_window * TicksPerSecond
    /\ ~last_dup.res

\* C27: the list get_messages returns for a grouped message is strictly
\* ascending by message id, has at most 10 members, all of the chat and the
\* grouped id of the message, and a delivery passes the members on in the
\* order of the list.
C27_BatchInvariant ==
    (assembled.fn # "none" /\ assembled.msg.gid # 0) =>
        LET l == assembled.list IN
        /\ \A i \in 1..(Len(l) - 1) : l[i].id < l[i + 1].id
        /\ Len(l) <= 10
        /\ \A i \in 1..Len(l) :
              l[i].chat = assembled.msg.chat /\ l[i].gid = assembled.msg.gid
        /\ assembled.fn \in Delivery =>
              /\ Len(assembled.sent) = Len(l)
              /\ \A i \in 1..Len(l) : assembled.sent[i] = l[i].id

C27_Witness ==
    /\ assembled.fn = "copy"
    /\ Len(assembled.q.hist) = 11
    /\ \A i \in 1..11 : assembled.q.hist[i].gid = 70
    /\ Len(assembled.list) = 10
    /\ assembled.list[1].id = 2 /\ assembled.list[10].id = 11
    /\ assembled.sent[1] = 2 /\ assembled.sent[10] = 11

\* C30: a message whose chat or sender lookup is pending does not stay
\* there: the dispatcher goes on to match the rules, and every rule that
\* accepts the message has its forwarder invoked.
C30_LookupDoesNotBlock ==
    \A r \in Rules :
        (dpc = "resolving" /\ r \in matched_rules(event)) ~> (invoked[r] > 0)

\* C22: of the pipelines that handle the members of one album for a rule,
\* at most one goes past the skip check to delivery, and no album member is
\* delivered twice to the same target.
Proceeded(t) ==
    \/ task[t].pc = "targets"
    \/ task[t].outcome \in {"forwarded", "failed"}

C22_AlbumOncePerRule ==
    /\ \A t \in Tasks, u \in Tasks :
          (t # u /\ task[t].msg.gid # 0 /\ task[t].msg.gid = task[u].msg.gid)
              => ~(Proceeded(t) /\ Proceeded(u))
    /\ \A d \in PostedIds \X TargetIds : deliveries[d] <= 1

\* C29: with several pipelines of rule 1 interleaving at their awaits, the
\* rule's forwarded count is its initial value plus the number of runs with
\* a successful target, and its filtered count is its initial value plus the
\* number of filtered messages, in memory and in the stats database.
Ended(outcomes) == Cardinality({t \in Tasks : task[t].outcome \in outcomes})

C29_NoLostIncrement ==
    /\ forwarded_count[1] = base.forwarded[1] + Ended({"forwarded"})
    /\ filtered_count[1] =
          base.filtered[1] + Ended({"rejected", "filtered", "duplicate"})
    /\ db[1].forwarded = base.db[1].forwarded + Ended({"forwarded"})
    /\ db[1].filtered = base.db[1].filtered + Ended({"filtered", "duplicate"})

C29_Witness ==
    /\ \A t \in Tasks : task[t].pc = "done"
    /\ Cardinality({t \in Tasks : task[t].outcome = "forwarded"
                                  /\ task[t].overlapped}) = 2
    /\ Ended({"duplicate"}) = 1
    /\ forwarded_count[1] = 2
    /\ filtered_count[1] = 1

\* C31: a filter built from valid and malformed patterns gives an answer
\* for every message, and the answer rests on the text matching a valid
\* pattern or a keyword: the malformed patterns take no part.
C31_InvalidPatternsDropped ==
    (probe.fn = "message" /\ PassesEarlyChecks) =>
        LET f == rule[1].filter
            text == Probed.text
            valid == {p \in f.regex_patterns : p.valid}
            hit == /\ text # <<>>
                   /\ \/ \E p \in valid : Contains(text, p.lit)
                      \/ \E k \in f.keywords : Contains(LowerText(text), LowerText(k))
        IN /\ probe.res \in BOOLEAN
           /\ probe.res = IF valid = {} /\ f.keywords = {} THEN f.mode = "blacklist"
                          ELSE IF f.mode = "whitelist" THEN hit ELSE ~hit

C31_Witness ==
    /\ probe.fn = "message"
    /\ PassesEarlyChecks
    /\ \E p \in rule[1].filter.regex_patterns : p.valid
    /\ \E p \in rule[1].filter.regex_patterns : ~p.valid
    /\ rule[1].filter.keywords = {}
    /\ rule[1].filter.mode = "whitelist"
    /\ Probed.text = <<"h">>
    /\ probe.res

\* C32: the name the last rename or delete took from the rule list has no
\* rows in the stats database, neither right after the operation nor after
\* the increments of the pipelines that were running during it.
C32_NoRowsUnderOldName == \A n \in retired : n \notin stats_rows

\* C33: when a source line is put before a text that is not empty, the
\* new text is the line, two newlines and the text, and every entity keeps
\* its length and moves by the UTF-16 length of the line plus two: one unit
\* for each character and one more for each character outside the Basic
\* Multilingual Plane.
C33_EntitiesShifted ==
    (prepended.called /\ prepended.source_text # <<>> /\ prepended.text # <<>>) =>
        LET src == prepended.source_text
            units == Len(src) + Cardinality({i \in 1..Len(src) : src[i] \in Astral}) + 2
            before == prepended.entities
            after == prepended.res.entities
        IN /\ prepended.res.text = src \o <<"n", "n">> \o prepended.text
           /\ Len(after) = Len(before)
           /\ \A i \in 1..Len(before) :
                 /\ after[i].length = before[i].length
                 /\ after[i].offset = before[i].offset + units

C33_Witness ==
    /\ prepended.called
    /\ prepended.source_text = <<"s", "E">>
    /\ prepended.text = <<"E", "a">>
    /\ prepended.entities = <<Entity(0, 2), Entity(2, 1)>>
    /\ prepended.res.entities = <<Entity(5, 2), Entity(7, 1)>>

\* C34: when the rule being served has delivered its message list to a
\* target and a message of the list has text, the rule's filter passes a
\* message of the list.
C34_NoUnfilteredDelivery ==
    (/\ cur # 0
     /\ \E i \in 1..Len(log) :
           log[i].rule = cur /\ log[i].op \in Delivery /\ log[i].res = "ok"
     /\ \E j \in 1..Len(messages) : messages[j].text # <<>>) =>
        \E j \in 1..Len(messages) :
            should_forward(rule[cur].filter, messages[j], event.sender)

\* C35: the second forward_message call that follows a FloodWaitError of
\* the first is not returned early by should_skip as an album seen before
\* and does not count its message as filtered.
C35_RetryNotSuppressed ==
    (run = 2 /\ cur # 0 /\ pc # "forward_message") =>
        /\ ~(/\ Len(messages) > 1
              /\ last_skip.rule = cur
              /\ last_skip.gid = event.gid
              /\ last_skip.res)
        /\ filtered_count[cur] = base.filtered[cur]

\* The entries the forward_message call in progress wrote to the log.
OfThisRun(i) == log[i].rule = cur /\ log[i].run = run

\* C36: a forward_message call that got past its checks (it reached the
\* download or a target) and returned has a delivery attempt on every
\* target and exactly one result record, forwarded or all failed.
C36_AttemptedAndAccounted ==
    (/\ cur # 0
     /\ pc = "fm_return"
     /\ \E i \in 1..Len(log) :
           OfThisRun(i) /\ log[i].op \in Delivery \cup {"download"}) =>
        /\ \A k \in 1..Len(Targets(cur)) :
              \E i \in 1..Len(log) :
                  /\ OfThisRun(i)
                  /\ log[i].op \in Delivery
                  /\ log[i].target = Targets(cur)[k]
        /\ Cardinality({i \in 1..Len(log) :
                           OfThisRun(i) /\ log[i].op = "result"}) = 1

\* C37: a step of the target loop taken while the run holds downloaded
\* files keeps the same files, and every delivery it makes is an upload of
\* them, whatever hide_sender and preserve_format are.
C37_FilesSticky ==
    [][(/\ cur # 0
        /\ pc \in {"targets", "fallback"}
        /\ downloaded_files # <<>>) =>
           /\ downloaded_files' = downloaded_files
           /\ \A i \in (Len(log) + 1)..Len(log') :
                 log'[i].op \in Delivery => log'[i].op = "reupload"]_vars

C37_Witness ==
    /\ pc = "done"
    /\ rule[cur].hide_sender /\ rule[cur].preserve_format
    /\ event.noforwards /\ rule[cur].force_forward
    /\ Len(Attempts(cur)) = 2
    /\ Attempts(cur)[1].op = "reupload" /\ Attempts(cur)[1].res = "error"
    /\ Attempts(cur)[2].op = "reupload" /\ Attempts(cur)[2].res = "ok"
    /\ \E i \in 1..Len(log) :
          log[i].op = "download" /\ ~log[i].fb /\ log[i].res = "ok" /\ log[i].n > 0

\* C38: with start() called from several control threads, at most one bot
\* thread is alive, and a start() that returned True was not called while
\* a thread that is still alive existed.
C38_OneThreadOnStart ==
    /\ Cardinality({b \in BotThreads : Alive(b)}) <= 1
    /\ \A c \in Callers :
          (ctl[c].op = "start" /\ ctl[c].pc = "returned" /\ ctl[c].ret) =>
              \A b \in ctl[c].before : ~Alive(b)

\* C39: a stop() that returned True left its thread terminated, at most
\* one bot thread has a connected client, and while the thread a restart()
\* created runs its main loop without a stop requested, is_running is true.
C39_StopStops ==
    /\ \A c \in Callers : (ctl[c].ret /\ ctl[c].joined # 0) => ~ctl[c].left_alive
    /\ Cardinality({b \in BotThreads : bot[b].connected}) <= 1
    /\ \A c \in Callers :
          (/\ ctl[c].op = "restart" /\ ctl[c].pc = "returned" /\ ctl[c].ret
           /\ bot[ctl[c].spawned].pc = "loop" /\ ~stop_event) => is_running

\* C40: for every running rule the forwarder's forwarded_count and
\* filtered_count equal the counts stored for the rule in the stats
\* database.
C40_CountersAgree ==
    \A r \in Active :
        /\ forwarded_count[r] = db[r].forwarded
        /\ filtered_count[r] = db[r].filtered

====
